---- MODULE Spec2Model ----
(***************************************************************************)
(* A model of the SSSEA audit pipeline (lyfeng/sssea): the five ROMA       *)
(* agents driven by SSSEAPipeline.run, the Anvil simulator toolkit and its *)
(* AnvilScreener, the TEE toolkit, the forensics detectors, the mock       *)
(* attestation provider and Perception's transaction normalisation.        *)
(*                                                                         *)
(* Python values are modelled as records tagged with their type (field t); *)
(* strings that the code inspects character by character (transaction     *)
(* values) are sequences of one-character strings; addresses and calldata, *)
(* of which the code only reads the prefix, the length and whether the     *)
(* digits are hexadecimal, are records of exactly these observations.      *)
(***************************************************************************)
EXTENDS Integers, Sequences, FiniteSets, TLC

(***************************************************************************)
(* Bounds of the model.                                                    *)
(***************************************************************************)
\* base units per whole unit: the model's stand-in for 10^18 (int(1e18))
WeiPerEther == 10
\* the largest integer transaction value fed to Perception
MaxTxInt == 17

(***************************************************************************)
(* Python strings and integers                                             *)
(***************************************************************************)
HexChars == <<"0", "1", "2", "3", "4", "5", "6", "7", "8", "9",
              "a", "b", "c", "d", "e", "f">>

DecChars == {"0", "1", "2", "3", "4", "5", "6", "7", "8", "9"}

\* str.startswith("0x")
StartsWith0x(s) == Len(s) >= 2 /\ s[1] = "0" /\ s[2] = "x"

RECURSIVE HexNat(_)
\* the hexadecimal digits of a natural number, most significant first
HexNat(n) ==
    IF n < 16 THEN <<HexChars[n + 1]>>
    ELSE HexNat(n \div 16) \o <<HexChars[(n % 16) + 1]>>

\* hex(n) of Python: "0x.." and "-0x.." for a negative number
PyHex(n) ==
    IF n < 0 THEN <<"-", "0", "x">> \o HexNat(-n)
    ELSE <<"0", "x">> \o HexNat(n)

DecVal(c) == CHOOSE i \in 0..9 : HexChars[i + 1] = c

RECURSIVE DecNat(_)
\* the value of a non-empty sequence of decimal digits
DecNat(s) ==
    IF Len(s) = 1 THEN DecVal(s[1])
    ELSE 10 * DecNat(SubSeq(s, 1, Len(s) - 1)) + DecVal(s[Len(s)])

AllDec(s) == Len(s) >= 1 /\ \A i \in 1..Len(s) : s[i] \in DecChars

\* int(s) succeeds: an optional sign and decimal digits (the alphabet of the
\* model has no blanks and no underscores, which int() would also accept)
IntParses(s) ==
    \/ AllDec(s)
    \/ Len(s) >= 2 /\ s[1] \in {"-", "+"} /\ AllDec(Tail(s))

\* int(s) where IntParses(s)
IntOf(s) ==
    IF s[1] = "-" THEN 0 - DecNat(Tail(s))
    ELSE IF s[1] = "+" THEN DecNat(Tail(s))
    ELSE DecNat(s)

Str(s) == [t |-> "str", v |-> s]

(***************************************************************************)
(* PerceptionAgent._normalize_value and _validate_tx_data                  *)
(***************************************************************************)
\* int(value * 1e18) for a float given in halves of a whole unit
FloatToWei(halves) == (halves * WeiPerEther) \div 2

\* _normalize_value: the stored form of a transaction value
NormalizeValue(value) ==
    CASE value.t = "int" -> Str(PyHex(value.v))
      [] value.t = "float" -> Str(PyHex(FloatToWei(value.v)))
      [] value.t = "str" ->
            IF StartsWith0x(value.v) THEN value
            ELSE IF IntParses(value.v) THEN Str(PyHex(IntOf(value.v)))
            ELSE Str(<<"0">>)
      [] OTHER -> Str(<<"0">>)

AddrKeys == {"tx_from", "tx_to", "from", "to"}
ValueKeys == {"tx_value", "value", "amount"}
DataKeys == {"tx_data", "data", "calldata"}

\* an address the validation loop rejects: not a string, no 0x prefix, or
\* not 42 characters long
AddrRejected(a) == a.t # "str" \/ ~a.pre \/ a.len # 42

\* address.lower()
AddrLower(a) == [a EXCEPT !.low = TRUE]

\* the calldata branch: data.startswith raises on a non-string
DataRejected(d) == d.t # "str"

\* "0x" + data when the prefix is missing
DataPrefixed(d) == IF d.pre THEN d ELSE [d EXCEPT !.pre = TRUE, !.len = d.len + 2]

DefaultValue == Str(<<"0">>)
DefaultData == [t |-> "str", pre |-> TRUE, len |-> 2]

\* _validate_tx_data raises (ValueError on an address, AttributeError on a
\* calldata that is no string)
ValidateRaises(tx) ==
    \/ \E k \in AddrKeys \cap DOMAIN tx : AddrRejected(tx[k])
    \/ \E k \in DataKeys \cap DOMAIN tx : DataRejected(tx[k])

\* _validate_tx_data: the validated dict of a raw dict it accepts
ValidateTxData(tx) ==
    [k \in ((AddrKeys \cup ValueKeys \cup DataKeys) \cap DOMAIN tx)
            \cup {"tx_value", "tx_data"} |->
        IF k \in DOMAIN tx
        THEN CASE k \in AddrKeys -> AddrLower(tx[k])
               [] k \in ValueKeys -> NormalizeValue(tx[k])
               [] OTHER -> DataPrefixed(tx[k])
        ELSE IF k = "tx_value" THEN DefaultValue ELSE DefaultData]

(***************************************************************************)
(* Raw transactions fed to Perception                                      *)
(***************************************************************************)
GoodAddr == [t |-> "str", pre |-> TRUE, len |-> 42, hex |-> TRUE, low |-> TRUE]

RawAddrs ==
    { GoodAddr,
      [GoodAddr EXCEPT !.low = FALSE],
      [GoodAddr EXCEPT !.hex = FALSE],
      [GoodAddr EXCEPT !.len = 41],
      [GoodAddr EXCEPT !.pre = FALSE],
      [t |-> "int", pre |-> FALSE, len |-> 0, hex |-> FALSE, low |-> FALSE] }

\* "0x" + "0" * 40
ZeroAddress == <<"0", "x">> \o [i \in 1..40 |-> "0"]

\* "0x" + "0" * 39 + "1"
OneAddress == <<"0", "x">> \o [i \in 1..40 |-> IF i = 40 THEN "1" ELSE "0"]

\* 40 decimal digits: "0" * 39 + "5"
FortyDigits == [i \in 1..40 |-> IF i = 40 THEN "5" ELSE "0"]

RawValues ==
    { [t |-> "int", v |-> n] : n \in {0, MaxTxInt, 0 - 5} }
    \cup { [t |-> "float", v |-> 3] }
    \cup { Str(s) : s \in { <<"0">>, <<"1", "0", "0">>, <<"0", "x", "6", "4">>,
                            <<"0", "x", "z">>, <<"a", "b", "c">>, <<>>,
                            ZeroAddress, OneAddress, FortyDigits } }
    \cup { [t |-> "none", v |-> 0] }

RawDatas ==
    { [t |-> "str", pre |-> TRUE, len |-> 2],
      [t |-> "str", pre |-> FALSE, len |-> 8],
      [t |-> "str", pre |-> TRUE, len |-> 138],
      [t |-> "str", pre |-> TRUE, len |-> 1002],
      [t |-> "bytes", pre |-> FALSE, len |-> 4] }

Absent == [t |-> "absent"]

\* a dict from the fields given (Absent: the key is not in the dict)
MkDict(fields) ==
    [k \in {x \in DOMAIN fields : fields[x].t # "absent"} |-> fields[k]]

\* the raw transaction dicts of the model: sender, recipient, value and
\* calldata, each present or not, under the canonical or the short key
RawTxs ==
    { MkDict([tx_from |-> f, tx_to |-> GoodAddr, tx_value |-> v, tx_data |-> d]) :
        f \in RawAddrs \cup {Absent}, v \in RawValues \cup {Absent},
        d \in RawDatas \cup {Absent} }
    \cup
    { MkDict([from |-> GoodAddr, to |-> f, value |-> v, calldata |-> Absent]) :
        f \in RawAddrs, v \in RawValues \cup {Absent} }

VARIABLES
    norm,     \* Perception's validation applied once and twice to a raw dict
    att,      \* the attestation provider and the verifier
    tee,      \* the TEE toolkit: enclave and ephemeral keys
    anvil,    \* the Anvil toolkit, its screener, the child node
    pipe,     \* the pipeline: stage position, shared context, agents
    log,      \* history of the operations that returned or raised
    http,     \* the HTTP service: the last request and its answer
    pool,     \* the AnvilScreenerPool: the instances and what the audits hold
    exec,     \* the Executor walking a plan: groups, coroutines, results
    fx        \* the calls of the forensics toolkit, of the intent analyzer
              \* and of single methods of the agents

vars == <<norm, att, tee, anvil, pipe, log, http, pool, exec, fx>>

\* the HTTP service and the pool in the specifications that do not use them
HttpOff == [phase |-> "off"]
ExecOff == [phase |-> "off"]
FxOff == [phase |-> "off"]
PoolOff == [phase |-> "off"]

(***************************************************************************)
(* Specification SpecNorm: _validate_tx_data applied to a raw dict and     *)
(* again to its own output                                                 *)
(***************************************************************************)
NormIdle == [phase |-> "idle"]

NormInit == norm \in { [phase |-> "raw", raw |-> tx] : tx \in RawTxs }

\* the first pass over the raw dict
NormValidate ==
    /\ norm.phase = "raw"
    /\ norm' = IF ValidateRaises(norm.raw)
               THEN [phase |-> "rejected", raw |-> norm.raw]
               ELSE [phase |-> "once", raw |-> norm.raw,
                     first |-> ValidateTxData(norm.raw)]

\* the second pass, over the output of the first
NormRevalidate ==
    /\ norm.phase = "once"
    /\ norm' = IF ValidateRaises(norm.first)
               THEN [phase |-> "rejected_again", raw |-> norm.raw,
                     first |-> norm.first]
               ELSE [phase |-> "twice", raw |-> norm.raw, first |-> norm.first,
                     second |-> ValidateTxData(norm.first)]

(***************************************************************************)
(* OMLAttestationQuote and MockAttestationProvider                         *)
(***************************************************************************)
\* the latest reading of the clock that stamps a quote
MaxClock == 2

\* the private keys _generate_mock_key can produce
SigningKeys == {"key_a", "key_b"}

\* the salts of the randomised PSS padding
Salts == {"salt_1", "salt_2"}

MOCK_TEE_FINGERPRINT == "mock_nitro_fp_0x5d2a9c8e7b6f4a3d2e1f0a9b8c7d6e5f"

Fingerprints == {MOCK_TEE_FINGERPRINT, "custom_fp"}

RiskLevels == {"SAFE", "WARNING", "CRITICAL"}

\* the simulation results attested: a dict with or without a risk_level
AttestedResults ==
    { MkDict([risk_level |-> r]) :
        r \in { [t |-> "str", v |-> l] : l \in RiskLevels } \cup {Absent} }

\* the position of a key of the quote dict in the lexicographic order of str
KeyRank ==
    [pcr0 |-> 1, pcr1 |-> 2, tee_fingerprint |-> 3, tee_type |-> 4,
     timestamp |-> 5, user_data |-> 6, version |-> 7]

\* a dict in insertion order: a sequence of <<key, value>> items
RECURSIVE SortItems(_)
\* sorted(dict.items()): selection of the least key first
SortItems(items) ==
    IF Len(items) = 0 THEN <<>>
    ELSE LET m == CHOOSE i \in 1..Len(items) :
                    \A j \in 1..Len(items) :
                        KeyRank[items[i][1]] <= KeyRank[items[j][1]]
         IN  <<items[m]>> \o
             SortItems(SubSeq(items, 1, m - 1) \o SubSeq(items, m + 1, Len(items)))

\* json.dumps(d): the items in insertion order; with sort_keys, by key
JsonDumps(items, sort_keys) ==
    [json |-> IF sort_keys THEN SortItems(items) ELSE items]

\* base64.b64encode and b64decode
B64Encode(bytes) == [b64 |-> bytes]
B64Decode(text) == text.b64

\* hashlib.sha256(..).hexdigest()
Sha256(bytes) == [sha256 |-> bytes]

\* OMLAttestationQuote.from_simulation_result
FromSimulationResult(result, tee_fingerprint, now) ==
    [pcr0 |-> Sha256(result),
     pcr1 |-> "0*64",
     user_data |-> IF "risk_level" \in DOMAIN result
                   THEN result.risk_level.v ELSE "SAFE",
     tee_fingerprint |-> tee_fingerprint,
     timestamp |-> now]

\* OMLAttestationQuote.to_dict, in the order the literal lists the keys
QuoteToDict(quote) ==
    << <<"version", "OML_1.0">>,
       <<"tee_type", "AWS_NITRO_ENCLAVE">>,
       <<"pcr0", quote.pcr0>>,
       <<"pcr1", quote.pcr1>>,
       <<"user_data", quote.user_data>>,
       <<"tee_fingerprint", quote.tee_fingerprint>>,
       <<"timestamp", quote.timestamp>> >>

\* OMLAttestationQuote.to_base64
QuoteToBase64(quote) == B64Encode(JsonDumps(QuoteToDict(quote), FALSE))

\* RSA-PSS: a signature binds the key, the message and the salt drawn
RsaSign(key, message, salt) == [key |-> key, message |-> message, salt |-> salt]
PublicKeyOf(key) == [public_of |-> key]
RsaVerify(public_key, signature, message) ==
    /\ public_key = PublicKeyOf(signature.key)
    /\ signature.message = message

\* MockAttestationProvider.sign_quote
SignQuote(key, quote, salt) ==
    B64Encode(RsaSign(key, JsonDumps(QuoteToDict(quote), TRUE), salt))

\* MockAttestationProvider.generate_full_attestation
GenerateFullAttestation(key, tee_fingerprint, result, now, salt) ==
    LET quote == FromSimulationResult(result, tee_fingerprint, now)
    IN  [quote |-> QuoteToBase64(quote),
         signature |-> SignQuote(key, quote, salt),
         public_key |-> PublicKeyOf(key)]

\* MockAttestationProvider.verify_quote: False where verify raises
VerifyQuote(key, quote_b64, signature_b64) ==
    RsaVerify(PublicKeyOf(key), B64Decode(signature_b64), B64Decode(quote_b64))

(***************************************************************************)
(* Specification SpecAttest: a provider attests a result and verifies its  *)
(* own attestation                                                         *)
(***************************************************************************)
AttIdle == [phase |-> "idle"]

\* MockAttestationProvider.__init__
AttInit ==
    att \in { [phase |-> "new", key |-> k, tee_fingerprint |-> fp] :
                k \in SigningKeys, fp \in Fingerprints }

\* generate_full_attestation(simulation_result)
AttGenerate ==
    /\ att.phase = "new"
    /\ \E result \in AttestedResults, now \in 1..MaxClock, salt \in Salts :
         att' = [phase |-> "made", key |-> att.key,
                 tee_fingerprint |-> att.tee_fingerprint,
                 out |-> GenerateFullAttestation(att.key, att.tee_fingerprint,
                                                 result, now, salt)]

\* verify_quote(out["quote"], out["signature"]) on the same provider
AttVerify ==
    /\ att.phase = "made"
    /\ att' = [phase |-> "verified", key |-> att.key,
               tee_fingerprint |-> att.tee_fingerprint, out |-> att.out,
               ok |-> VerifyQuote(att.key, att.out.quote, att.out.signature)]

(***************************************************************************)
(* TEEToolkit: the isolation manager                                       *)
(***************************************************************************)
\* the number of enclaves one toolkit creates
MaxEnclaves == 2
\* the number of ephemeral keys one toolkit generates
MaxKeys == 2

Backends == {"docker-sim", "nitro", "sgx"}

\* the outcomes of the docker / nitro-cli subprocess: exit code 0, another
\* exit code, or subprocess.run raising (TimeoutExpired, FileNotFoundError)
SubprocessOutcomes == {"ok", "nonzero", "raises"}

\* memory sizes asked of create_enclave (MB)
MemorySizes == {64, 512}

\* TEEToolkit._initialize; enclave_id 0 stands for None
TeeNew(backend) ==
    [backend |-> backend, enclave_id |-> 0, keys |-> {},
     containers |-> {}, created |-> 0, generated |-> 0,
     last |-> [op |-> "init", success |-> TRUE]]

\* TEEToolkit.validate_input for action create_enclave (cpus at its default)
TeeValidInput(memory) == ~(memory < 128 \/ memory > 32768)

\* __call__(action="create_enclave"): _handle_create_enclave behind the
\* input validation of BaseToolkit.__call__
HandleCreateEnclave(t, memory, outcome) ==
    IF TeeValidInput(memory) /\ t.backend # "sgx" /\ outcome = "ok"
    THEN [t EXCEPT !.enclave_id = t.created + 1,
                   !.containers = @ \cup {t.created + 1},
                   !.created = @ + 1,
                   !.last = [op |-> "create_enclave", success |-> TRUE]]
    ELSE [t EXCEPT !.last = [op |-> "create_enclave", success |-> FALSE]]

\* _handle_destroy_enclave: nothing to do without an enclave; the exit code
\* of the removal is not read; an exception leaves enclave and keys in place
HandleDestroyEnclave(t, outcome) ==
    IF t.enclave_id = 0
    THEN [t EXCEPT !.last = [op |-> "destroy_enclave", success |-> TRUE]]
    ELSE IF outcome = "raises"
    THEN [t EXCEPT !.last = [op |-> "destroy_enclave", success |-> FALSE]]
    ELSE [t EXCEPT !.containers = IF outcome = "ok" THEN @ \ {t.enclave_id} ELSE @,
                   !.enclave_id = 0,
                   !.keys = {},
                   !.last = [op |-> "destroy_enclave", success |-> TRUE]]

\* _handle_generate_key: the key is stored whether or not an enclave runs
HandleGenerateKey(t) ==
    [t EXCEPT !.keys = @ \cup {t.generated + 1},
              !.generated = @ + 1,
              !.last = [op |-> "generate_key", success |-> TRUE]]

\* the active_keys of _handle_status: listed only while an enclave is set
ReportedKeys(t) == IF t.enclave_id = 0 THEN {} ELSE t.keys

HandleStatus(t) == [t EXCEPT !.last = [op |-> "status", success |-> TRUE]]

\* TEEToolkit.cleanup
TeeCleanup(t, outcome) ==
    [(IF t.enclave_id # 0 THEN HandleDestroyEnclave(t, outcome) ELSE t)
        EXCEPT !.last = [op |-> "cleanup", success |-> TRUE]]

(***************************************************************************)
(* AnvilScreener: the child node and the simulation of one transaction     *)
(*                                                                         *)
(* The child node is part of the state: whether it answers RPC (ready),    *)
(* the version of its chain state (chain: every mined transaction makes a  *)
(* new version, evm_revert goes back to the version of the snapshot) and   *)
(* whether the sender is impersonated (imp).  The calls out of the program *)
(* (RPC, subprocess) can fail; which one fails is an input of the          *)
(* operation.  The RPC calls of the two finally blocks (evm_revert,        *)
(* anvil_stopImpersonatingAccount) are answered by a node that is alive.   *)
(***************************************************************************)
\* AnvilScreener.__init__: no process, no web3 client, no process info
ScreenerNew ==
    [process |-> "none", ready |-> FALSE, w3 |-> FALSE, info |-> FALSE,
     chain |-> 0, imp |-> FALSE]

\* the is_running property
IsRunning(s) == s.process = "alive"

\* how start() can go: the child answers in time, Popen (or the search for a
\* free port) raises, the child does not answer within max_wait, or the
\* first read of the block number raises
StartOutcomes == {"ok", "spawn_fails", "timeout", "rpc_error"}

\* AnvilScreener.start (fork_block not configured)
ScreenerStart(s, outcome) ==
    IF IsRunning(s) THEN [s |-> s, raised |-> FALSE]
    ELSE IF outcome = "spawn_fails" THEN [s |-> s, raised |-> TRUE]
    ELSE LET spawned == [s EXCEPT !.process = "alive", !.chain = 0, !.imp = FALSE,
                                  !.ready = (outcome # "timeout")]
         IN  CASE outcome = "timeout" -> [s |-> spawned, raised |-> TRUE]
               [] outcome = "rpc_error" ->
                     [s |-> [spawned EXCEPT !.w3 = TRUE], raised |-> TRUE]
               [] OTHER ->
                     [s |-> [spawned EXCEPT !.w3 = TRUE, !.info = TRUE],
                      raised |-> FALSE]

\* AnvilScreener.stop: terminate, kill after the wait timed out
ScreenerStop(s) ==
    [s EXCEPT !.process = "none", !.ready = FALSE, !.w3 = FALSE,
              !.info = FALSE, !.chain = 0, !.imp = FALSE]

\* int(s, 16) succeeds on the digits after "0x"
AllHex(s) ==
    Len(s) >= 1 /\ \A i \in 1..Len(s) : \E j \in 1..16 : HexChars[j] = s[i]

\* Web3.to_checksum_address(s) accepts s: 40 hexadecimal digits, with or
\* without the 0x prefix (the alphabet of the model is lower case)
AddressShaped(s) ==
    \/ Len(s) = 42 /\ StartsWith0x(s) /\ AllHex(SubSeq(s, 3, 42))
    \/ Len(s) = 40 /\ AllHex(s)

\* _get_balances(tx_from, tx_to, tx_value) raises: the loop skips an empty
\* string and the zero address and converts every other argument to a
\* checksum address, the transaction value included
BalancesRaise(req) ==
    \/ ~req.tx_from.hex
    \/ ~req.tx_to.hex
    \/ req.tx_value # <<>> /\ req.tx_value # ZeroAddress
          /\ ~AddressShaped(req.tx_value)

\* the steps of simulate whose call out of the program can raise
FailPoints ==
    {"none", "snapshot", "balances_before", "nonce", "impersonate", "send",
     "receipt", "balances_after"}

\* one ETH balance change as _calculate_asset_changes and the toolkit
\* report it
EthChange(amount) == [token |-> "ETH", change |-> amount]

\* the balance changes a simulation can observe (zero changes are dropped)
ChangeLists ==
    { <<>>,
      <<EthChange(0 - 1)>>,
      <<EthChange(0 - WeiPerEther)>>,
      <<EthChange(0 - (WeiPerEther + 1))>>,
      <<EthChange(0 - ((WeiPerEther \div 2) + 1)),
        EthChange(0 - ((WeiPerEther \div 2) + 1))>>,
      <<EthChange(0 - (WeiPerEther + 1)), EthChange(WeiPerEther + 1)>> }

\* one entry of the call trace: its depth, its callee, whether the text
\* "flashloan" occurs in it, and whether its calldata is an approve() of a
\* contract that is not on the official list
CallTrace(depth, to, flash) ==
    [depth |-> depth, to |-> to, flash |-> flash, approve |-> FALSE]

\* the call depth above which a trace counts as deep
DEEP_CALL_DEPTH == 20

\* the traces debug_traceTransaction can return
TraceLists ==
    { <<>>,
      [i \in 1..3 |-> CallTrace(i, "", FALSE)],
      [i \in 1..4 |-> CallTrace(i, "", FALSE)],
      [i \in 1..4 |-> CallTrace(i, IF i = 2 THEN "0xb" ELSE "0xa", FALSE)],
      <<CallTrace(1, "0xa", TRUE)>>,
      <<[CallTrace(1, "0xa", FALSE) EXCEPT !.approve = TRUE]>>,
      [i \in 1..4 |-> CallTrace(i, "", i = 4)],
      <<CallTrace(DEEP_CALL_DEPTH, "0xa", FALSE)>>,
      <<CallTrace(DEEP_CALL_DEPTH + 1, "0xa", FALSE)>> }

\* what the environment does during one simulate call
SimOracles ==
    { [start |-> st, fail |-> f, status |-> 1, trace_ok |-> TRUE,
       traces |-> <<>>, changes |-> <<>>] :
         st \in StartOutcomes, f \in FailPoints \ {"none"} }
    \cup
    { [start |-> "ok", fail |-> "none", status |-> r, trace_ok |-> k,
       traces |-> tr, changes |-> <<>>] :
         r \in {0, 1}, k \in BOOLEAN, tr \in TraceLists }
    \cup
    { [start |-> "ok", fail |-> "none", status |-> r, trace_ok |-> TRUE,
       traces |-> <<>>, changes |-> ch] :
         r \in {0, 1}, ch \in ChangeLists }

\* a finally block that leaves the impersonation in place
KeepImpersonating(s) == s

\* the finally block of _execute_transaction: anvil_stopImpersonatingAccount
StopImpersonating(s) == [s EXCEPT !.imp = FALSE]

\* _execute_transaction: nonce, impersonation, then send, receipt and trace
\* under the finally block; a failed trace request is swallowed.  The field
\* impersonated tells that anvil_impersonateAccount was answered.
ExecuteTransaction(s, o) ==
    IF o.fail \in {"nonce", "impersonate"}
    THEN [s |-> s, raised |-> TRUE, impersonated |-> FALSE]
    ELSE LET impersonating == [s EXCEPT !.imp = TRUE]
             mined == [impersonating EXCEPT !.chain = @ + 1]
         IN  CASE o.fail = "send" ->
                     [s |-> StopImpersonating(impersonating), raised |-> TRUE,
                      impersonated |-> TRUE]
               [] o.fail = "receipt" ->
                     [s |-> StopImpersonating(mined), raised |-> TRUE,
                      impersonated |-> TRUE]
               [] OTHER ->
                     [s |-> StopImpersonating(mined), raised |-> FALSE,
                      impersonated |-> TRUE,
                      status |-> o.status,
                      traces |-> IF o.trace_ok THEN o.traces ELSE <<>>]

\* max(t.depth for t in call_traces) of a non-empty list
MaxTraceDepth(traces) ==
    CHOOSE d \in {traces[i].depth : i \in 1..Len(traces)} :
        \A i \in 1..Len(traces) : traces[i].depth <= d

\* AnvilScreener._detect_anomalies raises: int(request.tx_value) is read in
\* base 10 as soon as there is an ETH change
AnomaliesRaise(req, changes) ==
    /\ \E i \in 1..Len(changes) : changes[i].token = "ETH"
    /\ ~IntParses(req.tx_value)

\* AnvilScreener._detect_anomalies
ScreenerAnomalies(req, success, changes, traces) ==
    (IF ~success THEN {"tx_failed"} ELSE {})
    \cup (IF \E i \in 1..Len(changes) :
                changes[i].change < 0 - IntOf(req.tx_value)
          THEN {"eth_outflow"} ELSE {})
    \cup (IF Len(traces) > 0 /\ MaxTraceDepth(traces) > DEEP_CALL_DEPTH
          THEN {"deep_call"} ELSE {})

\* the body of the try block of simulate.  (Here and below a value that is
\* read several times is bound as the element of a singleton set.)
SimulateBody(s, req, o) ==
    IF o.fail = "balances_before" \/ BalancesRaise(req)
    THEN [s |-> s, raised |-> TRUE, impersonated |-> FALSE]
    ELSE CHOOSE r \in
           { IF x.raised \/ o.fail = "balances_after" \/ ~x.s.info
                \/ AnomaliesRaise(req, o.changes)
             THEN [s |-> x.s, raised |-> TRUE, impersonated |-> x.impersonated]
             ELSE [s |-> x.s, raised |-> FALSE, impersonated |-> TRUE,
                   result |-> [success |-> x.status = 1,
                               asset_changes |-> o.changes,
                               call_traces |-> x.traces,
                               anomalies |-> ScreenerAnomalies(
                                   req, x.status = 1, o.changes, x.traces)]] :
               x \in {ExecuteTransaction(s, o)} } : TRUE

\* a finally block that leaves the node in the state the body left
NoRevert(s, snapshot_id) == s

\* the finally block of simulate: evm_revert(snapshot_id); a snapshot is
\* identified with the version of the chain it was taken of
RevertSnapshot(s, snapshot_id) == [s EXCEPT !.chain = snapshot_id]

\* AnvilScreener.simulate: start when not running, snapshot, body, revert
Simulate(s, req, o) ==
    CHOOSE r \in
      { IF st.raised \/ ~st.s.w3 \/ ~st.s.ready \/ o.fail = "snapshot"
        THEN [s |-> st.s, raised |-> TRUE, snapshot |-> FALSE,
              impersonated |-> FALSE]
        ELSE CHOOSE done \in
               { [b EXCEPT !.s = RevertSnapshot(b.s, st.s.chain)]
                    @@ [snapshot |-> TRUE, before |-> st.s] :
                   b \in {SimulateBody(st.s, req, o)} } : TRUE :
          st \in { IF IsRunning(s) THEN [s |-> s, raised |-> FALSE]
                   ELSE ScreenerStart(s, o.start) } } : TRUE

(***************************************************************************)
(* AnvilToolkit                                                            *)
(***************************************************************************)
\* AnvilToolkit._initialize: no screener yet
AnvilNew == [has_screener |-> FALSE, s |-> ScreenerNew]

\* _get_screener: the first call makes the screener and starts it; the
\* attribute is assigned before start() is called
GetScreener(a, outcome) ==
    IF a.has_screener THEN [a |-> a, raised |-> FALSE]
    ELSE LET st == ScreenerStart(ScreenerNew, outcome)
         IN  [a |-> [has_screener |-> TRUE, s |-> st.s], raised |-> st.raised]

\* the ToolkitResult of a call that failed before it produced data
ToolFailure == [success |-> FALSE, data |-> "empty"]

\* __call__(action="start"): _handle_start
HandleStart(a, outcome) ==
    CHOOSE r \in
      { CHOOSE done \in
          { [a |-> [g.a EXCEPT !.s = st.s],
             result |-> IF st.raised \/ ~st.s.info THEN ToolFailure
                        ELSE [success |-> TRUE, data |-> "status"]] :
              st \in { IF g.raised THEN [s |-> g.a.s, raised |-> TRUE]
                       ELSE ScreenerStart(g.a.s, outcome) } } : TRUE :
          g \in {GetScreener(a, outcome)} } : TRUE

\* __call__(action="stop"): _handle_stop drops the screener it stopped
HandleStop(a) == AnvilNew

\* AnvilToolkit.validate_input for simulate_tx: both addresses start with
\* "0x" and are 42 characters long
AnvilValidInput(p) ==
    /\ p.tx_from.pre /\ p.tx_from.len = 42
    /\ p.tx_to.pre /\ p.tx_to.len = 42

\* SimulationRequest.validate_tx_value accepts the value
TxValueValid(v) ==
    IF StartsWith0x(v) THEN AllHex(SubSeq(v, 3, Len(v))) ELSE IntParses(v)

\* SimulationRequest(...) raises a ValidationError
RequestRejected(user_intent, p) ==
    \/ user_intent = "empty"
    \/ ~p.tx_from.hex
    \/ ~p.tx_to.hex
    \/ ~TxValueValid(p.tx_value)

\* __call__(action="simulate_tx"): input validation, _handle_simulate_tx,
\* and the failure result of BaseToolkit.__call__ for what execute raises
HandleSimulateTx(a, user_intent, p, o) ==
    IF ~AnvilValidInput(p) THEN [a |-> a, result |-> ToolFailure, ran |-> FALSE]
    ELSE CHOOSE r \in
      { IF g.raised \/ RequestRejected(user_intent, p)
        THEN [a |-> g.a, result |-> ToolFailure, ran |-> FALSE]
        ELSE CHOOSE done \in
          { [a |-> [g.a EXCEPT !.s = sim.s],
             ran |-> TRUE,
             sim |-> sim,
             result |->
               IF sim.raised
               THEN [success |-> FALSE, data |-> "request"]
               ELSE [success |-> TRUE, data |-> "simulation",
                     execution_success |-> sim.result.success,
                     asset_changes |-> sim.result.asset_changes,
                     call_traces |-> sim.result.call_traces,
                     anomalies |-> sim.result.anomalies]] :
              sim \in {Simulate(g.a.s, p, o)} } : TRUE :
          g \in {GetScreener(a, o.start)} } : TRUE

\* AnvilToolkit.cleanup: stop the screener if there is one (there is no pool)
AnvilCleanup(a) ==
    IF a.has_screener THEN [a EXCEPT !.s = ScreenerStop(a.s)] ELSE a

(***************************************************************************)
(* ForensicsToolkit: the attack detectors and the risk score               *)
(*                                                                         *)
(* A score is a float.  It is modelled by its decimal value in thousandths *)
(* (m) and by the sign of the difference between the float the code        *)
(* computes and the float nearest to that decimal value (ulp), which is    *)
(* what a comparison with a threshold literal sees.                        *)
(***************************************************************************)
\* _detect_reentrancy: one callee called at more than three distinct depths
DetectReentrancy(traces) ==
    \E i \in 1..Len(traces) :
        Cardinality({traces[j].depth : j \in {k \in 1..Len(traces) :
                                              traces[k].to = traces[i].to}}) > 3

\* _check_approval_trap: reads the keys input_data and to_address, which
\* the traces of the Anvil toolkit (keys input and to) do not have
CheckApprovalTrap(traces, native_keys) ==
    native_keys /\ \E i \in 1..Len(traces) : traces[i].approve

\* _check_phishing_attack: an ETH change below minus one whole unit
CheckPhishingAttack(changes) ==
    \E i \in 1..Len(changes) :
        changes[i].token = "ETH" /\ changes[i].change < 0 - WeiPerEther

RECURSIVE TotalOut(_)
\* the sum of the negative changes
TotalOut(changes) ==
    IF Len(changes) = 0 THEN 0
    ELSE (IF Head(changes).change < 0 THEN Head(changes).change ELSE 0)
         + TotalOut(Tail(changes))

\* _check_drain_attack: abs(total_out) > int(1e18)
CheckDrainAttack(changes) == 0 - TotalOut(changes) > WeiPerEther

\* _check_flashloan_attack
CheckFlashloanAttack(traces) == \E i \in 1..Len(traces) : traces[i].flash

\* the attacks _handle_detect_attack appends, in its order
DetectedAttacks(traces, changes, native_keys) ==
    (IF DetectReentrancy(traces) THEN {"reentrancy"} ELSE {})
    \cup (IF CheckApprovalTrap(traces, native_keys) THEN {"approval_trap"} ELSE {})
    \cup (IF CheckPhishingAttack(changes) THEN {"phishing"} ELSE {})
    \cup (IF CheckDrainAttack(changes) THEN {"drain"} ELSE {})
    \cup (IF CheckFlashloanAttack(traces) THEN {"flashloan"} ELSE {})

\* severity weight times confidence of each attack, in thousandths:
\* 0.4 * 0.7, 0.4 * 0.8, 0.4 * 0.6, 0.4 * 0.7, 0.15 * 0.8
AttackScore ==
    [reentrancy |-> 280, approval_trap |-> 320, phishing |-> 240,
     drain |-> 280, flashloan |-> 120]

\* the sets of attacks whose accumulated float lies below the float nearest
\* to the decimal sum (0.28 + 0.12 is 0.39999999999999997)
RoundedBelow ==
    { {"reentrancy"}, {"drain"}, {"reentrancy", "drain"},
      {"reentrancy", "flashloan"}, {"drain", "flashloan"},
      {"reentrancy", "drain", "flashloan"} }

\* the sets of attacks whose accumulated float lies above it
RoundedAbove ==
    { {"approval_trap"}, {"reentrancy", "approval_trap"},
      {"approval_trap", "drain"}, {"approval_trap", "flashloan"},
      {"reentrancy", "approval_trap", "phishing"},
      {"reentrancy", "approval_trap", "drain"},
      {"reentrancy", "approval_trap", "flashloan"},
      {"approval_trap", "phishing", "drain"},
      {"approval_trap", "drain", "flashloan"},
      {"reentrancy", "approval_trap", "phishing", "flashloan"},
      {"approval_trap", "phishing", "drain", "flashloan"} }

RECURSIVE SumScores(_)
SumScores(attacks) ==
    IF attacks = {} THEN 0
    ELSE LET a == CHOOSE x \in attacks : TRUE
         IN  AttackScore[a] + SumScores(attacks \ {a})

\* _calculate_risk_score: min(score, 1.0)
CalculateRiskScore(attacks) ==
    IF SumScores(attacks) >= 1000 THEN [m |-> 1000, ulp |-> 0]
    ELSE [m |-> SumScores(attacks),
          ulp |-> IF attacks \in RoundedBelow THEN 0 - 1
                  ELSE IF attacks \in RoundedAbove THEN 1 ELSE 0]

\* score >= threshold and score > threshold on floats
ScoreGE(score, threshold) ==
    score.m > threshold \/ (score.m = threshold /\ score.ulp >= 0)
ScoreGT(score, threshold) ==
    score.m > threshold \/ (score.m = threshold /\ score.ulp > 0)

\* _get_risk_level
GetRiskLevel(score) ==
    IF ScoreGE(score, 700) THEN "CRITICAL"
    ELSE IF ScoreGE(score, 400) THEN "WARNING"
    ELSE "SAFE"

\* __call__(action="detect_attack"): _handle_detect_attack
HandleDetectAttack(traces, changes, native_keys) ==
    LET attacks == DetectedAttacks(traces, changes, native_keys)
        score == CalculateRiskScore(attacks)
    IN  [success |-> TRUE, attacks |-> attacks, risk_score |-> score,
         risk_level |-> GetRiskLevel(score)]

(***************************************************************************)
(* The parts of the state a specification does not exercise                *)
(***************************************************************************)
PipeOff == [pc |-> "off"]
LogInit == [op |-> "init"]

(***************************************************************************)
(* SpecNorm                                                                *)
(***************************************************************************)
InitNorm ==
    /\ NormInit
    /\ att = AttIdle
    /\ tee = TeeNew("docker-sim")
    /\ anvil = AnvilNew
    /\ pipe = PipeOff
    /\ log = LogInit
    /\ exec = ExecOff /\ fx = FxOff /\ http = HttpOff
    /\ pool = PoolOff

NextNorm ==
    \/ NormValidate /\ UNCHANGED <<fx, exec, http, pool, att, tee, anvil, pipe, log>>
    \/ NormRevalidate /\ UNCHANGED <<fx, exec, http, pool, att, tee, anvil, pipe, log>>

SpecNorm == InitNorm /\ [][NextNorm]_vars

(***************************************************************************)
(* SpecAttest                                                              *)
(***************************************************************************)
InitAttest ==
    /\ AttInit
    /\ norm = NormIdle
    /\ tee = TeeNew("docker-sim")
    /\ anvil = AnvilNew
    /\ pipe = PipeOff
    /\ log = LogInit
    /\ exec = ExecOff /\ fx = FxOff /\ http = HttpOff
    /\ pool = PoolOff

NextAttest ==
    \/ AttGenerate /\ UNCHANGED <<fx, exec, http, pool, norm, tee, anvil, pipe, log>>
    \/ AttVerify /\ UNCHANGED <<fx, exec, http, pool, norm, tee, anvil, pipe, log>>

SpecAttest == InitAttest /\ [][NextAttest]_vars

\* C10: a raw transaction that validation accepts is left unchanged by a
\* second validation of its validated form
C10_Idempotent == norm.phase = "twice" => norm.second = norm.first

\* C9: verify_quote accepts the quote and the signature of every
\* attestation generate_full_attestation returned
C9_VerifyOwnAttestation == att.phase = "verified" => att.ok

(***************************************************************************)
(* The operations of the TEE toolkit, called on the toolkit or through     *)
(* SSSEAPipeline.execute_tool while no audit runs                          *)
(***************************************************************************)
NoAudit == pipe.pc \in {"off", "idle"}

TeeCreateEnclave ==
    /\ NoAudit
    /\ tee.created < MaxEnclaves
    /\ \E memory \in MemorySizes, outcome \in SubprocessOutcomes :
         tee' = HandleCreateEnclave(tee, memory, outcome)
    /\ log' = [op |-> "create_enclave"]
    /\ UNCHANGED <<fx, exec, http, pool, norm, att, anvil, pipe>>

TeeGenerateKey ==
    /\ NoAudit
    /\ tee.generated < MaxKeys
    /\ tee' = HandleGenerateKey(tee)
    /\ log' = [op |-> "generate_key"]
    /\ UNCHANGED <<fx, exec, http, pool, norm, att, anvil, pipe>>

TeeDestroyEnclave ==
    /\ NoAudit
    /\ \E outcome \in SubprocessOutcomes :
         tee' = HandleDestroyEnclave(tee, outcome)
    /\ log' = [op |-> "destroy_enclave", success |-> tee'.last.success,
               held |-> tee.keys]
    /\ UNCHANGED <<fx, exec, http, pool, norm, att, anvil, pipe>>

TeeStatus ==
    /\ NoAudit
    /\ tee' = HandleStatus(tee)
    /\ log' = [op |-> "status", active_keys |-> ReportedKeys(tee)]
    /\ UNCHANGED <<fx, exec, http, pool, norm, att, anvil, pipe>>

TeeCleanupCall ==
    /\ pipe.pc = "off"
    /\ \E outcome \in SubprocessOutcomes : tee' = TeeCleanup(tee, outcome)
    /\ log' = [op |-> "cleanup", success |-> TRUE, held |-> tee.keys]
    /\ UNCHANGED <<fx, exec, http, pool, norm, att, anvil, pipe>>

(***************************************************************************)
(* SpecTee: a TEE toolkit on its own                                       *)
(***************************************************************************)
InitTee ==
    /\ tee \in {TeeNew(b) : b \in Backends}
    /\ norm = NormIdle
    /\ att = AttIdle
    /\ anvil = AnvilNew
    /\ pipe = PipeOff
    /\ log = LogInit
    /\ exec = ExecOff /\ fx = FxOff /\ http = HttpOff
    /\ pool = PoolOff

NextTee ==
    \/ TeeCreateEnclave
    \/ TeeGenerateKey
    \/ TeeDestroyEnclave
    \/ TeeStatus
    \/ TeeCleanupCall

SpecTee == InitTee /\ [][NextTee]_vars

\* C6: once destroy_enclave or cleanup has returned, the toolkit holds no
\* ephemeral key and reports none as active
C6_NoKeyAfterDestroy ==
    log.op \in {"destroy_enclave", "cleanup"} =>
        tee.keys = {} /\ ReportedKeys(tee) = {}

(***************************************************************************)
(* The operations of the Anvil toolkit, called on the toolkit or through   *)
(* SSSEAPipeline.execute_tool while no audit runs                          *)
(***************************************************************************)
\* the number of transactions a node mines before it is replaced
MaxChain == 2

\* the calls of simulate_tx: the intent and the transaction parameters
SimCalls ==
    { [user_intent |-> "swap",
       p |-> [tx_from |-> GoodAddr, tx_to |-> GoodAddr, tx_value |-> v]] :
        v \in {<<"0">>, <<"0", "x", "6", "4">>, <<"a", "b", "c">>,
               ZeroAddress, OneAddress, FortyDigits} }
    \cup
    { [user_intent |-> i,
       p |-> [tx_from |-> f, tx_to |-> GoodAddr, tx_value |-> OneAddress]] :
        i \in {"swap", "empty"},
        f \in {GoodAddr, [GoodAddr EXCEPT !.hex = FALSE],
               [GoodAddr EXCEPT !.len = 41]} }

AnvilStart ==
    /\ NoAudit
    /\ \E outcome \in StartOutcomes :
         LET r == HandleStart(anvil, outcome)
         IN  /\ anvil' = r.a
             /\ log' = [op |-> "start", success |-> r.result.success]
    /\ UNCHANGED <<fx, exec, http, pool, norm, att, tee, pipe>>

AnvilStop ==
    /\ NoAudit
    /\ anvil' = HandleStop(anvil)
    /\ log' = [op |-> "stop", success |-> TRUE]
    /\ UNCHANGED <<fx, exec, http, pool, norm, att, tee, pipe>>

AnvilSimulateTx ==
    /\ NoAudit
    /\ anvil.s.chain < MaxChain
    /\ \E c \in SimCalls, o \in SimOracles :
         LET r == HandleSimulateTx(anvil, c.user_intent, c.p, o)
         IN  /\ anvil' = r.a
             /\ log' = IF r.ran
                       THEN [op |-> "simulate_tx", ran |-> TRUE,
                             snapshot |-> r.sim.snapshot,
                             raised |-> r.sim.raised,
                             impersonated |-> r.sim.impersonated,
                             before |-> IF r.sim.snapshot THEN r.sim.before.chain
                                        ELSE 0,
                             fail |-> o.fail, status |-> o.status,
                             tx_value |-> c.p.tx_value, result |-> r.result]
                       ELSE [op |-> "simulate_tx", ran |-> FALSE,
                             tx_value |-> c.p.tx_value, result |-> r.result]
    /\ UNCHANGED <<fx, exec, http, pool, norm, att, tee, pipe>>

AnvilCleanupCall ==
    /\ pipe.pc = "off"
    /\ anvil' = AnvilCleanup(anvil)
    /\ log' = [op |-> "anvil_cleanup", success |-> TRUE]
    /\ UNCHANGED <<fx, exec, http, pool, norm, att, tee, pipe>>

(***************************************************************************)
(* SpecSim: an Anvil toolkit on its own                                    *)
(***************************************************************************)
InitSim ==
    /\ anvil = AnvilNew
    /\ norm = NormIdle
    /\ att = AttIdle
    /\ tee = TeeNew("docker-sim")
    /\ pipe = PipeOff
    /\ log = LogInit
    /\ exec = ExecOff /\ fx = FxOff /\ http = HttpOff
    /\ pool = PoolOff

NextSim ==
    \/ AnvilStart
    \/ AnvilStop
    \/ AnvilSimulateTx
    \/ AnvilCleanupCall

SpecSim == InitSim /\ [][NextSim]_vars

\* simulate was entered by the last operation
Simulated == log.op = "simulate_tx" /\ log.ran

\* C4: when simulate has taken a snapshot, the state of the node after the
\* call is the state the snapshot was taken of, whether the call returned
\* or raised
C4_SnapshotReverted ==
    (Simulated /\ log.snapshot) => anvil.s.chain = log.before

\* a transaction was mined and a later step of the same call raised
C4_Witness ==
    /\ Simulated /\ log.snapshot /\ log.raised
    /\ log.fail \in {"receipt", "balances_after"}
    /\ anvil.s.chain = log.before

\* C5: when simulate has returned or raised, the sender is not impersonated
C5_ImpersonationStopped == Simulated => ~anvil.s.imp

\* the sender was impersonated and sending the transaction raised
C5_Witness ==
    /\ Simulated /\ log.impersonated /\ log.raised /\ log.fail = "send"
    /\ ~anvil.s.imp

(***************************************************************************)
(* SSSEAPipeline.run and the five agents                                   *)
(*                                                                         *)
(* AgentResult declares agent_name as a required field and no agent passes *)
(* it to the constructor; BaseAgent.__call__ assigns it afterwards.  With  *)
(* the field enforced, every construction of an AgentResult raises, in the *)
(* except handlers of the agents too, and run reports a "pipeline" error   *)
(* after the body of Perception.  The model has the pipeline both ways:    *)
(* pipe.result_validated = TRUE is the model as declared, FALSE is the     *)
(* pipeline in which the construction succeeds and __call__ fills the name *)
(* in.                                                                     *)
(***************************************************************************)
\* the largest max_retries a ReflectionAgent is configured with
MaxRetries == 2
\* the number of audits one pipeline object runs
MaxRuns == 2

\* the user intents: a text with "swap" in it, another text, the empty
\* string, and a value that is no string
UserIntents == {"swap", "other", "empty", "none"}

\* _parse_user_intent: the intent type of the text
ParseUserIntent(user_intent) ==
    IF user_intent = "swap" THEN "swap" ELSE "unknown"

EmptyStr == [t |-> "str", pre |-> FALSE, len |-> 0, hex |-> FALSE, low |-> TRUE]

\* dict.get(key, dict.get(alias, default))
GetOr(d, key, alias, default) ==
    IF key \in DOMAIN d THEN d[key]
    ELSE IF alias \in DOMAIN d THEN d[alias] ELSE default

\* _extract_key_params over the validated dict
ExtractKeyParams(tx) ==
    [tx_from |-> GetOr(tx, "tx_from", "from", EmptyStr),
     tx_to |-> GetOr(tx, "tx_to", "to", EmptyStr),
     tx_value |-> GetOr(tx, "tx_value", "value", Str(<<"0">>)).v,
     tx_data |-> GetOr(tx, "tx_data", "data", DefaultData)]

\* max(complexity, "medium") of two strings
MaxWithMedium(complexity) ==
    IF complexity = "simple" THEN "simple" ELSE "medium"

\* _classify_task: the intent type is read from the metadata the caller
\* passed (Perception stores its own analysis after the call)
ClassifyTask(metadata, params) ==
    LET intent_type == IF "intent_analysis" \in DOMAIN metadata
                       THEN metadata.intent_analysis ELSE "unknown"
        complexity == IF params.tx_data.len > 1000 THEN "complex"
                      ELSE IF params.tx_data.len > 200 THEN "medium"
                      ELSE "simple"
    IN  [task_type |-> intent_type,
         complexity |-> IF intent_type \in {"swap", "approve"}
                        THEN MaxWithMedium(complexity) ELSE complexity]

\* _determine_next_step
DetermineNextStep(complexity) ==
    IF complexity = "complex" THEN "planner" ELSE "executor"

\* PerceptionAgent.execute: the metadata after the call and the result
PerceptionExecute(ctx) ==
    IF ValidateRaises(ctx.tx_data)
    THEN [metadata |-> ctx.metadata, success |-> FALSE, next_step |-> "none"]
    ELSE LET tx == ValidateTxData(ctx.tx_data)
             key_params == ExtractKeyParams(tx)
             class == ClassifyTask(ctx.metadata, key_params)
         IN  [metadata |->
                 [k \in DOMAIN ctx.metadata \cup
                        {"intent_analysis", "validated_tx_data", "key_params",
                         "task_type", "complexity"} |->
                    CASE k = "intent_analysis" -> ParseUserIntent(ctx.user_intent)
                      [] k = "validated_tx_data" -> tx
                      [] k = "key_params" -> key_params
                      [] k = "task_type" -> class.task_type
                      [] k = "complexity" -> class.complexity
                      [] OTHER -> ctx.metadata[k]],
              success |-> TRUE,
              next_step |-> DetermineNextStep(class.complexity)]

(***************************************************************************)
(* PlannerAgent                                                            *)
(***************************************************************************)
\* int(s, 16) succeeds: an optional sign, an optional 0x, hexadecimal digits
HexParses(s) ==
    LET body == IF Len(s) >= 1 /\ s[1] \in {"-", "+"} THEN Tail(s) ELSE s
    IN  AllHex(IF StartsWith0x(body) THEN SubSeq(body, 3, Len(body)) ELSE body)

\* _analyze_task raises on a transaction value int(.., 16) does not read
AnalyzeTaskRaises(metadata) == ~HexParses(metadata.validated_tx_data.tx_value.v)

\* a dict without keys
NoParams == <<>>

\* _generate_subtasks: the five subtasks, the static analysis only for a
\* transaction with calldata
GenerateSubtasks(ctx) ==
    LET tx == ctx.metadata.validated_tx_data
        key_params == ctx.metadata.key_params
    IN  (IF tx.tx_data.len > 2
         THEN << [id |-> "static_analysis", tool |-> "forensics_analyzer",
                  action |-> "check_risk_patterns",
                  params |-> [tx_to |-> GetOr(tx, "tx_to", "tx_to", EmptyStr),
                              tx_data |-> tx.tx_data],
                  priority |-> "high", depends_on |-> {}] >>
         ELSE << >>)
        \o
        << [id |-> "setup_environment", tool |-> "anvil_simulator",
            action |-> "start", params |-> NoParams,
            priority |-> "high", depends_on |-> {}],
           [id |-> "simulate_tx", tool |-> "anvil_simulator",
            action |-> "simulate_tx",
            params |-> [user_intent |-> ctx.user_intent,
                        tx_from |-> key_params.tx_from,
                        tx_to |-> key_params.tx_to,
                        tx_value |-> key_params.tx_value],
            priority |-> "critical", depends_on |-> {"setup_environment"}],
           [id |-> "trace_analysis", tool |-> "forensics_analyzer",
            action |-> "analyze_trace",
            params |-> [tx_from |-> key_params.tx_from,
                        tx_to |-> key_params.tx_to,
                        tx_value |-> key_params.tx_value],
            priority |-> "medium", depends_on |-> {"simulate_tx"}],
           [id |-> "attack_detection", tool |-> "forensics_analyzer",
            action |-> "detect_attack", params |-> NoParams,
            priority |-> "high",
            depends_on |-> {"simulate_tx", "trace_analysis"}] >>

\* _priority_value
PriorityValue(priority) ==
    CASE priority = "critical" -> 3
      [] priority = "high" -> 2
      [] priority = "medium" -> 1
      [] OTHER -> 0

\* the sequence without its i-th element
Without(seq, i) == SubSeq(seq, 1, i - 1) \o SubSeq(seq, i + 1, Len(seq))

RECURSIVE OrderTasks(_, _)
\* the loop of _build_execution_dag: the first remaining task whose
\* dependencies are all executed, or else a remaining task of the highest
\* priority
OrderTasks(remaining, executed) ==
    IF remaining = <<>> THEN <<>>
    ELSE LET ready == {i \in 1..Len(remaining) :
                           remaining[i].depends_on \subseteq executed}
             top == {i \in 1..Len(remaining) :
                       \A j \in 1..Len(remaining) :
                          PriorityValue(remaining[j].priority)
                              <= PriorityValue(remaining[i].priority)}
             from == IF ready = {} THEN top ELSE ready
             i == CHOOSE x \in from : \A y \in from : x <= y
         IN  <<remaining[i]>>
             \o OrderTasks(Without(remaining, i), executed \cup {remaining[i].id})

\* a grouping that never closes a group: every task in one group
GroupAll(tasks, current_group, current_deps) ==
    IF tasks = <<>> /\ current_group = <<>> THEN <<>>
    ELSE <<current_group \o [i \in 1..Len(tasks) |-> tasks[i].id]>>

RECURSIVE GroupParallelTasks(_, _, _)
\* _group_parallel_tasks: a task that depends on a task of the current
\* group closes the group
GroupParallelTasks(tasks, current_group, current_deps) ==
    IF tasks = <<>>
    THEN IF current_group = <<>> THEN <<>> ELSE <<current_group>>
    ELSE LET task == Head(tasks)
         IN  IF task.depends_on \cap current_deps # {}
             THEN <<current_group>>
                  \o GroupParallelTasks(Tail(tasks), <<task.id>>, {task.id})
             ELSE GroupParallelTasks(Tail(tasks),
                                     Append(current_group, task.id),
                                     current_deps \cup {task.id})

\* _build_execution_dag
BuildExecutionDag(subtasks) ==
    LET ordered == OrderTasks(subtasks, {})
    IN  [tasks |-> ordered,
         parallel_groups |-> GroupParallelTasks(ordered, <<>>, {})]

\* PlannerAgent.execute: the plan stored in the metadata, or the failure
PlannerExecute(ctx) ==
    IF AnalyzeTaskRaises(ctx.metadata)
    THEN [success |-> FALSE, metadata |-> ctx.metadata]
    ELSE [success |-> TRUE,
          metadata |-> [k \in DOMAIN ctx.metadata \cup {"plan"} |->
                          IF k = "plan"
                          THEN BuildExecutionDag(GenerateSubtasks(ctx))
                          ELSE ctx.metadata[k]]]

(***************************************************************************)
(* ExecutorAgent                                                           *)
(***************************************************************************)
\* dict.get(key, default)
Get(d, key, default) == IF key \in DOMAIN d THEN d[key] ELSE default

\* the ToolkitResult of detect_attack as a dict
AttackResult(traces, changes, native_keys) ==
    LET r == HandleDetectAttack(traces, changes, native_keys)
    IN  [success |-> TRUE, data |-> "attack", risk_score |-> r.risk_score,
         risk_level |-> r.risk_level, attacks |-> r.attacks]

\* _execute_task: the call of the tool of one subtask.  The forensics
\* toolkit refuses analyze_trace and detect_attack without call_traces.
ExecuteTask(a, user_intent, task, o) ==
    LET intent == IF "user_intent" \in DOMAIN task.params
                  THEN task.params.user_intent ELSE user_intent
    IN  CASE task.tool = "anvil_simulator" /\ task.action = "start" ->
               LET r == HandleStart(a, o.start)
               IN  [a |-> r.a, result |-> r.result]
          [] task.tool = "anvil_simulator" /\ task.action = "simulate_tx" ->
               LET r == HandleSimulateTx(a, intent, task.params, o)
               IN  [a |-> r.a, result |-> r.result]
          [] task.tool = "forensics_analyzer"
                /\ task.action = "check_risk_patterns" ->
               [a |-> a, result |-> [success |-> TRUE, data |-> "risks"]]
          [] task.tool = "forensics_analyzer"
                /\ task.action \in {"analyze_trace", "detect_attack"} ->
               [a |-> a,
                result |->
                  IF "call_traces" \notin DOMAIN task.params THEN ToolFailure
                  ELSE IF task.action = "analyze_trace"
                  THEN [success |-> TRUE, data |-> "trace"]
                  ELSE AttackResult(task.params.call_traces,
                                    task.params.asset_changes, TRUE)]
          [] OTHER -> [a |-> a, result |-> ToolFailure]

\* results[key] = value
Put(results, key, value) ==
    [k \in DOMAIN results \cup {key} |->
        IF k = key THEN value ELSE results[k]]

RECURSIVE RunTasks(_, _, _, _, _, _)
\* the subtasks one after the other; the sequential loop stops at a failed
\* critical task, the loop over the parallel groups does not.  (x ranges
\* over the one result of the call, which is so computed once.)
RunTasks(a, user_intent, tasks, o, sequential, results) ==
    IF tasks = <<>> THEN [a |-> a, results |-> results]
    ELSE CHOOSE r \in
           { IF sequential /\ Head(tasks).priority = "critical"
                /\ ~x.result.success
             THEN [a |-> x.a, results |-> Put(results, Head(tasks).id, x.result)]
             ELSE RunTasks(x.a, user_intent, Tail(tasks), o, sequential,
                           Put(results, Head(tasks).id, x.result)) :
               x \in {ExecuteTask(a, user_intent, Head(tasks), o)} } : TRUE

RECURSIVE Flatten(_)
Flatten(groups) ==
    IF groups = <<>> THEN <<>> ELSE Head(groups) \o Flatten(Tail(groups))

\* task_map[task_id]
TaskById(tasks, id) ==
    tasks[CHOOSE i \in 1..Len(tasks) :
             /\ tasks[i].id = id
             /\ \A j \in (i + 1)..Len(tasks) : tasks[j].id # id]

\* the risk level of the last detect_attack among the results, "none"
\* without one
DetectedLevel(results) ==
    IF \E k \in DOMAIN results : results[k].data = "attack"
    THEN results[CHOOSE k \in DOMAIN results : results[k].data = "attack"].risk_level
    ELSE "none"

\* the subtasks in the order _execute_plan runs them: group after group
\* when the plan has parallel groups, else as listed
PlanTasks(plan) ==
    IF plan.parallel_groups # <<>>
    THEN LET ids == Flatten(plan.parallel_groups)
         IN  [i \in 1..Len(ids) |-> TaskById(plan.tasks, ids[i])]
    ELSE plan.tasks

\* the end of _execute_plan: the simulation result of the context and the
\* success of more than half of the subtasks
PlanOutcome(ctx, run) ==
    [a |-> run.a,
     success |-> 2 * Cardinality({k \in DOMAIN run.results :
                                    run.results[k].success})
                    > Cardinality(DOMAIN run.results),
     simulation_result |-> IF "simulate_tx" \in DOMAIN run.results
                           THEN run.results["simulate_tx"]
                           ELSE ctx.simulation_result,
     results |-> run.results,
     mode |-> "plan",
     calls |-> <<>>,
     detector |-> DetectedLevel(run.results)]

\* _execute_plan
ExecutePlan(a, ctx, o) ==
    CHOOSE r \in
      { PlanOutcome(ctx, run) :
          run \in { RunTasks(a, ctx.user_intent, tasks, o,
                             ctx.metadata.plan.parallel_groups = <<>>, <<>>) :
                      tasks \in {PlanTasks(ctx.metadata.plan)} } } : TRUE

\* an Executor that runs the two analyses whatever the simulation returned
AnalysisAlways(simulation) == TRUE

\* results["simulation"].get("success"): the guard of the two analyses
AnalysisInvoked(simulation) == simulation.success

\* the end of _execute_simple_mode: after a successful simulation
\* analyze_trace and detect_attack; the calls made, in their order, and the
\* results under their keys
SimpleOutcome(x) ==
    LET analysed == AnalysisInvoked(x.sim.result)
        first == [start |-> x.start, simulation |-> x.sim.result]
        results == IF analysed
                   THEN Put(Put(first, "trace_analysis",
                                [success |-> TRUE, data |-> "trace"]),
                            "attack_detection",
                            AttackResult(
                               Get(x.sim.result, "call_traces", <<>>),
                               Get(x.sim.result, "asset_changes", <<>>),
                               FALSE))
                   ELSE first
    IN  [a |-> x.sim.a,
         success |-> x.sim.result.success,
         simulation_result |-> x.sim.result,
         results |-> results,
         mode |-> "simple",
         calls |-> <<"start", "simulate_tx">> \o
                   (IF analysed THEN <<"analyze_trace", "detect_attack">>
                    ELSE <<>>),
         detector |-> DetectedLevel(results)]

\* _execute_simple_mode: start, then simulate_tx with the key parameters
ExecuteSimpleMode(a, ctx, o) ==
    CHOOSE r \in
      { SimpleOutcome(x) :
          x \in { [start |-> start.result,
                   sim |-> HandleSimulateTx(start.a, ctx.user_intent,
                                            ctx.metadata.key_params, o)] :
                    start \in {HandleStart(a, o.start)} } } : TRUE

(***************************************************************************)
(* ReflectionAgent and AggregatorAgent                                     *)
(*                                                                         *)
(* A confidence is given in tenths.                                        *)
(***************************************************************************)
\* context.simulation_result of a context no Executor has written to
NoResult == [data |-> "none"]

ZeroScore == [m |-> 0, ulp |-> 0]

\* the risk_score entry of the data of a result, 0 without one
DataRiskScore(sim) == IF sim.data = "attack" THEN sim.risk_score ELSE ZeroScore

\* _assess_quality
AssessQuality(sim) ==
    LET failed == sim.data # "none" /\ ~sim.success
        score == DataRiskScore(sim)
        concerns == ScoreGT(score, 500)
    IN  [overall_success |-> ~failed,
         issues |-> IF failed THEN {"simulation_failed"} ELSE {},
         has_security_concerns |-> concerns,
         risk_score |-> IF concerns THEN score ELSE ZeroScore,
         confidence |-> IF ScoreGT(score, 700) THEN 9
                        ELSE IF failed THEN 3 ELSE 7]

\* ReflectionAgent._detect_anomalies: the severities of the anomalies
ReflectionAnomalies(sim) ==
    (IF sim.data = "simulation" /\ ~sim.execution_success
     THEN {"high"} ELSE {})
    \cup
    (IF sim.data = "simulation"
        /\ \E i \in 1..Len(sim.asset_changes) :
              sim.asset_changes[i].change < 0 - WeiPerEther
     THEN {"critical"} ELSE {})

\* _analyze_failures: the failure types of the issues
AnalyzeFailures(quality) ==
    [has_failures |-> quality.issues # {},
     failure_types |-> IF "simulation_failed" \in quality.issues
                       THEN {"execution_error"} ELSE {}]

\* a retry decision that does not look at the counter
RetryUnbounded(retry_count, max_retries) == TRUE

\* the test of the retry counter in _make_retry_decision
RetriesLeft(retry_count, max_retries) == retry_count < max_retries

\* _make_retry_decision
ShouldRetry(quality, failure, retry_count, max_retries) ==
    /\ ~(quality.overall_success /\ quality.confidence > 7)
    /\ failure.has_failures
    /\ RetriesLeft(retry_count, max_retries)
    /\ failure.failure_types \cap {"timeout", "execution_error"} # {}

\* ReflectionAgent.execute: metadata["reflection"], the next step and the
\* retry counter of the agent
ReflectionExecute(ctx, retry_count, max_retries) ==
    LET quality == AssessQuality(ctx.simulation_result)
        failure == AnalyzeFailures(quality)
        retry == ShouldRetry(quality, failure, retry_count, max_retries)
    IN  [reflection |-> [quality_assessment |-> quality,
                         anomalies |-> ReflectionAnomalies(ctx.simulation_result)],
         next_step |-> IF retry THEN "executor" ELSE "aggregator",
         confidence |-> quality.confidence,
         retry_count |-> IF retry THEN retry_count + 1 ELSE retry_count]

\* max of two scores
MaxScore(x, y) == IF y.m > x.m \/ (y.m = x.m /\ y.ulp > x.ulp) THEN y ELSE x

\* _generate_security_assessment and the verdict of _build_final_report
GenerateSecurityAssessment(reflection, sim) ==
    LET quality == reflection.quality_assessment
        level1 == IF quality.has_security_concerns THEN "WARNING" ELSE "SAFE"
        score1 == IF quality.has_security_concerns THEN quality.risk_score
                  ELSE ZeroScore
        data_score == DataRiskScore(sim)
        level2 == IF ScoreGT(data_score, 700) THEN "CRITICAL" ELSE level1
        score2 == IF data_score # ZeroScore THEN MaxScore(score1, data_score)
                  ELSE score1
    IN  IF "critical" \in reflection.anomalies
        THEN [risk_level |-> "CRITICAL", confidence |-> 7,
              risk_score |-> [m |-> 900, ulp |-> 0]]
        ELSE [risk_level |-> level2, confidence |-> 7, risk_score |-> score2]

(***************************************************************************)
(* The audits the model runs                                               *)
(***************************************************************************)
\* a transaction with the two addresses under their canonical keys
Tx(value, data_len) ==
    [tx_from |-> GoodAddr, tx_to |-> GoodAddr, tx_value |-> value,
     tx_data |-> [t |-> "str", pre |-> TRUE, len |-> data_len]]

\* a plan of one subtask that calls detect_attack
DetectPlan(traces, changes) ==
    [tasks |-> << [id |-> "simulate_tx", tool |-> "forensics_analyzer",
                   action |-> "detect_attack",
                   params |-> [call_traces |-> traces,
                               asset_changes |-> changes],
                   priority |-> "critical", depends_on |-> {}] >>,
     parallel_groups |-> << >>]

\* the same subtask under an id of its own: a plan without simulate_tx
DetectOnlyPlan ==
    [DetectPlan(<<>>, <<>>) EXCEPT !.tasks[1].id = "attack_detection"]

NoMetadata == <<>>

\* approve(spender, 2^256 - 1) sent to a contract that is not on the list of
\* official contracts: 138 characters of calldata, no value
ApproveTx ==
    [Tx(DefaultValue, 138) EXCEPT
       !.tx_data = [t |-> "str", pre |-> TRUE, len |-> 138,
                    approve_max |-> TRUE]]

\* the trace of that transaction: one call, the approve
ApproveTrace == <<[CallTrace(1, "0xa", FALSE) EXCEPT !.approve = TRUE]>>

\* the arguments of the calls of run: the intent, the raw transaction and
\* the metadata of the caller
RunInputs ==
    { [user_intent |-> i, tx_data |-> Tx(Str(OneAddress), 2),
       metadata |-> NoMetadata] : i \in UserIntents }
    \cup
    { [user_intent |-> "swap", tx_data |-> tx, metadata |-> NoMetadata] :
        tx \in { Tx(Str(OneAddress), 1002),
                 Tx(Str(<<"0", "x", "z">>), 1002),
                 Tx(Str(<<"0", "x", "6", "4">>), 2),
                 Tx([t |-> "float", v |-> 3], 138),
                 [Tx(Str(OneAddress), 2) EXCEPT !.tx_from.len = 41],
                 [Tx(Str(OneAddress), 2) EXCEPT !.tx_to.hex = FALSE],
                 [to |-> GoodAddr, value |-> Str(OneAddress)] } }
    \cup
    { [user_intent |-> "other", tx_data |-> ApproveTx,
       metadata |-> NoMetadata] }
    \cup
    { [user_intent |-> "swap", tx_data |-> Tx(Str(OneAddress), 1002),
       metadata |-> [intent_analysis |-> "swap"]] }
    \cup
    { [user_intent |-> "other", tx_data |-> Tx(Str(OneAddress), 2),
       metadata |-> [plan |-> plan]] :
        plan \in { DetectPlan(<<[CallTrace(1, "0xa", TRUE)
                                    EXCEPT !.approve = TRUE]>>, <<>>),
                   DetectPlan(<<>>, <<EthChange(0 - (WeiPerEther + 1))>>),
                   DetectPlan(<<[CallTrace(1, "0xa", FALSE)
                                    EXCEPT !.approve = TRUE]>>,
                              <<EthChange(0 - (WeiPerEther + 1))>>),
                   DetectOnlyPlan } }

\* what the environment does during one pass of the Executor
RunOracles ==
    { o \in SimOracles :
        /\ o.changes \in {<<>>, <<EthChange(0 - (WeiPerEther + 1))>>}
        /\ o.traces \in {<<>>, [i \in 1..4 |-> CallTrace(i, "", i = 4)],
                         ApproveTrace}
        /\ o.trace_ok
        /\ o.fail \in {"none", "snapshot", "send", "receipt"}
        /\ (o.fail # "none" => o.start \in {"ok", "timeout"}) }
    \cup
    { o \in SimOracles : o.fail = "balances_after" /\ o.start # "ok" }

(***************************************************************************)
(* SSSEAPipeline.run, one action for each stage.  The fields of pipe:      *)
(*   pc                     the stage run is about to call, "idle" between *)
(*                          two calls of run                               *)
(*   result_validated       AgentResult enforces its required field        *)
(*   max_retries, retry_count   the attributes of the ReflectionAgent      *)
(*   runs                   the calls of run so far                        *)
(*   ctx                    the AgentContext of the call                   *)
(*   report                 what run is going to return                    *)
(*   exec_passes, refl_passes, detector, confidence                        *)
(*                          the passes of Executor and Reflection in this  *)
(*                          call, the level detect_attack computed and the *)
(*                          confidence Reflection returned ("none" before) *)
(***************************************************************************)
NoContext == [user_intent |-> "none"]
\* no pass of the Executor yet
NoPass == [mode |-> "none"]
NoReport == [kind |-> "none"]

\* the pipeline after __init__ and between two audits
PipeIdle(validated, max_retries, retry_count, runs) ==
    [pc |-> "idle", result_validated |-> validated,
     max_retries |-> max_retries, retry_count |-> retry_count, runs |-> runs,
     ctx |-> NoContext, report |-> NoReport,
     exec_passes |-> 0, refl_passes |-> 0, detector |-> "none",
     confidence |-> 0, last_pass |-> NoPass]

\* _error_report
ErrorReport(ctx, stage) ==
    [kind |-> "error", error_stage |-> stage,
     execution_history |-> ctx.step_history]

\* what the log keeps of a call of run that returned
RunLog(q) ==
    [op |-> "run", raised |-> FALSE, report |-> q.report,
     step_history |-> q.ctx.step_history,
     simulation_result |-> q.ctx.simulation_result,
     perception_next_step |-> q.ctx.perception_next_step,
     exec_passes |-> q.exec_passes, refl_passes |-> q.refl_passes,
     detector |-> q.detector, confidence |-> q.confidence,
     max_retries |-> q.max_retries, result_validated |-> q.result_validated]

\* run is called: AgentContext(...) is constructed before the try block and
\* raises on an intent that is no string
RunBegin ==
    /\ pipe.pc = "idle"
    /\ pipe.runs < MaxRuns
    /\ \E input \in RunInputs :
         IF input.user_intent = "none"
         THEN /\ pipe' = [pipe EXCEPT !.runs = @ + 1]
              /\ log' = [op |-> "run", raised |-> TRUE]
         ELSE /\ pipe' = [pipe EXCEPT
                    !.pc = "perception", !.runs = @ + 1,
                    !.ctx = [user_intent |-> input.user_intent,
                             tx_data |-> input.tx_data,
                             metadata |-> input.metadata,
                             simulation_result |-> NoResult,
                             step_history |-> <<>>,
                             perception_next_step |-> "none"]]
              /\ log' = [op |-> "running"]
    /\ UNCHANGED <<fx, exec, http, pool, norm, att, tee, anvil>>

\* BaseAgent.__call__ after execute returned: add_history
AddHistory(ctx, agent_name) ==
    [ctx EXCEPT !.step_history = Append(@, agent_name)]

\* the except clause of run
PipelineError(q, ctx) ==
    [q EXCEPT !.pc = "cleanup", !.ctx = ctx,
              !.report = ErrorReport(ctx, "pipeline")]

\* await self.perception(context)
Perception ==
    /\ pipe.pc = "perception"
    /\ LET r == PerceptionExecute(pipe.ctx)
           ctx == [pipe.ctx EXCEPT !.metadata = r.metadata]
           recorded == [AddHistory(ctx, "perception") EXCEPT
                           !.perception_next_step = r.next_step]
       IN  pipe' =
             IF pipe.result_validated THEN PipelineError(pipe, ctx)
             ELSE IF ~r.success
             THEN [pipe EXCEPT !.pc = "cleanup", !.ctx = recorded,
                     !.report = ErrorReport(recorded, "perception")]
             ELSE [pipe EXCEPT !.pc = r.next_step, !.ctx = recorded]
    /\ UNCHANGED <<fx, exec, http, pool, norm, att, tee, anvil, log>>

\* await self.planner(context)
Planner ==
    /\ pipe.pc = "planner"
    /\ LET r == PlannerExecute(pipe.ctx)
           ctx == AddHistory([pipe.ctx EXCEPT !.metadata = r.metadata],
                             "planner")
       IN  pipe' =
             IF ~r.success
             THEN [pipe EXCEPT !.pc = "cleanup", !.ctx = ctx,
                     !.report = ErrorReport(ctx, "planner")]
             ELSE [pipe EXCEPT !.pc = "executor", !.ctx = ctx]
    /\ UNCHANGED <<fx, exec, http, pool, norm, att, tee, anvil, log>>

\* await self.executor(context), the first pass and the retry:
\* ExecutorAgent.execute follows the plan of the metadata when there is one
Executor ==
    /\ pipe.pc \in {"executor", "executor_retry"}
    /\ \E o \in RunOracles :
         \E x \in { IF "plan" \in DOMAIN pipe.ctx.metadata
                    THEN ExecutePlan(anvil, pipe.ctx, o)
                    ELSE ExecuteSimpleMode(anvil, pipe.ctx, o) } :
           \E ctx \in { AddHistory([pipe.ctx EXCEPT !.simulation_result =
                                                     x.simulation_result],
                                   "executor") } :
             /\ anvil' = x.a
             /\ pipe' =
                  IF pipe.pc = "executor" /\ ~x.success
                     /\ DOMAIN x.results = {}
                  THEN [pipe EXCEPT !.pc = "cleanup", !.ctx = ctx,
                          !.exec_passes = @ + 1,
                          !.last_pass = [mode |-> x.mode, calls |-> x.calls,
                                         results |-> x.results],
                          !.report = ErrorReport(ctx, "executor")]
                  ELSE [pipe EXCEPT
                          !.pc = IF @ = "executor" THEN "reflection"
                                 ELSE "reflection_retry",
                          !.ctx = ctx, !.exec_passes = @ + 1,
                          !.last_pass = [mode |-> x.mode, calls |-> x.calls,
                                         results |-> x.results],
                          !.detector = IF x.detector = "none" THEN @
                                       ELSE x.detector]
    /\ UNCHANGED <<fx, exec, http, pool, norm, att, tee, log>>

\* a pipeline that goes back to the Executor whenever Reflection asks
RetryAgain(pc, next_step) ==
    IF next_step = "executor" THEN "executor_retry" ELSE "aggregator"

\* the stage after Reflection: the Executor once more when the first
\* Reflection asked for it, else the Aggregator
AfterReflection(pc, next_step) ==
    IF pc = "reflection" /\ next_step = "executor"
    THEN "executor_retry" ELSE "aggregator"

\* await self.reflection(context), after the first pass and after the retry
Reflection ==
    /\ pipe.pc \in {"reflection", "reflection_retry"}
    /\ \E r \in {ReflectionExecute(pipe.ctx, pipe.retry_count,
                                   pipe.max_retries)} :
         pipe' = [pipe EXCEPT
                    !.ctx = [AddHistory(@, "reflection") EXCEPT
                               !.metadata = Put(@, "reflection", r.reflection)],
                    !.retry_count = r.retry_count,
                    !.refl_passes = @ + 1, !.confidence = r.confidence,
                    !.pc = AfterReflection(@, r.next_step)]
    /\ UNCHANGED <<fx, exec, http, pool, norm, att, tee, anvil, log>>

\* await self.aggregator(context); return aggregator_result.data
Aggregator ==
    /\ pipe.pc = "aggregator"
    /\ LET ctx == AddHistory(pipe.ctx, "aggregator")
           verdict == GenerateSecurityAssessment(pipe.ctx.metadata.reflection,
                                                 pipe.ctx.simulation_result)
       IN  pipe' = [pipe EXCEPT
                      !.pc = "cleanup", !.ctx = ctx,
                      !.report = [kind |-> "verdict", verdict |-> verdict,
                                  reflection |-> pipe.ctx.metadata.reflection]]
    /\ UNCHANGED <<fx, exec, http, pool, norm, att, tee, anvil, log>>

\* the finally clause of run: _cleanup, then run returns
Cleanup ==
    /\ pipe.pc = "cleanup"
    /\ anvil' = AnvilCleanup(anvil)
    /\ \E outcome \in SubprocessOutcomes : tee' = TeeCleanup(tee, outcome)
    /\ log' = RunLog(pipe)
    /\ pipe' = PipeIdle(pipe.result_validated, pipe.max_retries,
                        pipe.retry_count, pipe.runs)
    /\ UNCHANGED <<fx, exec, http, pool, norm, att>>

(***************************************************************************)
(* Spec: a pipeline that runs audits; between two audits its owner creates *)
(* an enclave or starts the simulator through execute_tool                 *)
(***************************************************************************)
Init ==
    /\ pipe \in { PipeIdle(v, m, 0, 0) : v \in BOOLEAN, m \in 0..MaxRetries }
    /\ tee = TeeNew("docker-sim")
    /\ anvil = AnvilNew
    /\ norm = NormIdle
    /\ att = AttIdle
    /\ log = LogInit
    /\ exec = ExecOff /\ fx = FxOff /\ http = HttpOff
    /\ pool = PoolOff

Next ==
    \/ RunBegin
    \/ Perception
    \/ Planner
    \/ Executor
    \/ Reflection
    \/ Aggregator
    \/ Cleanup
    \/ TeeCreateEnclave
    \/ AnvilStart

Spec == Init /\ [][Next]_vars

(***************************************************************************)
(* Properties of the audits                                                *)
(***************************************************************************)
\* a call of run has returned a report
Returned == log.op = "run" /\ ~log.raised

\* C1: in every run the Executor passes at most max_retries + 1 times, at
\* most max_retries of these passes are retries, and Reflection runs at
\* most once for each pass of the Executor
C1_PassesBounded ==
    /\ pipe.exec_passes <= pipe.max_retries + 1
    /\ pipe.exec_passes >= 1 => pipe.exec_passes - 1 <= pipe.max_retries
    /\ pipe.refl_passes <= pipe.exec_passes
    /\ Returned =>
         /\ log.exec_passes <= log.max_retries + 1
         /\ log.refl_passes <= log.exec_passes

\* a run with a retry has returned
C1_Witness ==
    Returned /\ log.exec_passes = 2 /\ log.refl_passes = 2
       /\ log.max_retries = 1

\* s is a prefix of t
IsPrefix(s, t) == Len(s) <= Len(t) /\ s = SubSeq(t, 1, Len(s))

\* the stage orders of a complete run
StageOrders ==
    { <<"perception">> \o planner \o <<"executor", "reflection">> \o retry
         \o <<"aggregator">> :
        planner \in {<<>>, <<"planner">>},
        retry \in {<<>>, <<"executor", "reflection">>} }

\* the history follows the declared order of the stages
InOrder(history, perception_next_step) ==
    /\ \E order \in StageOrders : IsPrefix(history, order)
    /\ (\E i \in 1..Len(history) : history[i] = "planner")
          => perception_next_step = "planner"

\* C2: the recorded history is a prefix of perception, [planner], executor,
\* reflection, [executor, reflection], aggregator; the Planner is in it only
\* when Perception returned next_step = planner; and a run in which
\* Reflection ran ends with the Aggregator
C2_StagesInOrder ==
    /\ pipe.pc # "idle" =>
          InOrder(pipe.ctx.step_history, pipe.ctx.perception_next_step)
    /\ Returned =>
          /\ InOrder(log.step_history, log.perception_next_step)
          /\ (\E i \in 1..Len(log.step_history) :
                 log.step_history[i] = "reflection")
                => log.step_history[Len(log.step_history)] = "aggregator"

\* a run through the Planner and a retry has returned
C2_Witness ==
    Returned /\ Len(log.step_history) = 7 /\ log.step_history[2] = "planner"

\* C3: when run has returned or raised, the child of the simulator is not
\* running and the TEE toolkit has no enclave
C3_NothingLeftRunning ==
    log.op = "run" => ~IsRunning(anvil.s) /\ tee.enclave_id = 0

\* CRITICAL > WARNING > SAFE
LevelRank(level) ==
    CASE level = "CRITICAL" -> 2 [] level = "WARNING" -> 1 [] OTHER -> 0

MaxLevel(x, y) == IF LevelRank(y) > LevelRank(x) THEN y ELSE x

\* the level Reflection's findings stand for
ReflectionLevel(reflection) ==
    IF "critical" \in reflection.anomalies THEN "CRITICAL"
    ELSE IF reflection.quality_assessment.has_security_concerns THEN "WARNING"
    ELSE "SAFE"

HasVerdict == Returned /\ log.report.kind = "verdict"

\* C7: the level of a verdict is the higher of Reflection's level and the
\* level detect_attack computed in the run, and it is the level of the
\* thresholds 0.7 and 0.4 for the score of the verdict
C7_VerdictLevel ==
    HasVerdict =>
       /\ log.report.verdict.risk_level =
             MaxLevel(ReflectionLevel(log.report.reflection), log.detector)
       /\ log.report.verdict.risk_level =
             GetRiskLevel(log.report.verdict.risk_score)

\* C8: the confidence of a verdict is the confidence Reflection returned
C8_VerdictConfidence ==
    HasVerdict => log.report.verdict.confidence = log.confidence

(***************************************************************************)
(* Properties of Perception                                                *)
(***************************************************************************)
RECURSIVE DecDigits(_)
\* str(n) of a natural number
DecDigits(n) ==
    IF n < 10 THEN <<HexChars[n + 1]>>
    ELSE DecDigits(n \div 10) \o <<HexChars[(n % 10) + 1]>>

HexDigitVal(c) == CHOOSE i \in 0..15 : HexChars[i + 1] = c

RECURSIVE HexVal(_)
\* the value of a non-empty sequence of hexadecimal digits
HexVal(s) ==
    IF Len(s) = 1 THEN HexDigitVal(s[1])
    ELSE 16 * HexVal(SubSeq(s, 1, Len(s) - 1)) + HexDigitVal(s[Len(s)])

\* the key under which the raw dict gives the value
GivenValueKey(tx) ==
    IF "tx_value" \in DOMAIN tx THEN "tx_value"
    ELSE IF "value" \in DOMAIN tx THEN "value" ELSE "none"

\* the value is in one of the forms the interface names: a natural number, a
\* decimal string, a hex-prefixed string, a float of whole units
ValueFormNamed(value) ==
    \/ value.t = "int" /\ value.v >= 0
    \/ value.t = "float"
    \/ value.t = "str" /\ AllDec(value.v)
    \/ value.t = "str" /\ StartsWith0x(value.v)
          /\ AllHex(SubSeq(value.v, 3, Len(value.v)))

\* the amount in base units a value of a named form stands for
BaseUnits(value) ==
    CASE value.t = "int" -> value.v
      [] value.t = "float" -> FloatToWei(value.v)
      [] StartsWith0x(value.v) -> HexVal(SubSeq(value.v, 3, Len(value.v)))
      [] OTHER -> DecNat(value.v)

\* C11: the stored value of an accepted transaction is the decimal string of
\* its amount in base units, and "0" when the raw dict gives no value
C11_CanonicalDecimal ==
    norm.phase = "once" =>
       IF GivenValueKey(norm.raw) = "none"
       THEN norm.first.tx_value = Str(<<"0">>)
       ELSE ValueFormNamed(norm.raw[GivenValueKey(norm.raw)]) =>
               norm.first[GivenValueKey(norm.raw)] =
                  Str(DecDigits(BaseUnits(norm.raw[GivenValueKey(norm.raw)])))

\* the complexity the size thresholds and the floor of swap and approve give
ExpectedComplexity(data_len, intent_type) ==
    LET by_size == IF data_len > 1000 THEN "complex"
                   ELSE IF data_len > 200 THEN "medium" ELSE "simple"
    IN  IF intent_type \in {"swap", "approve"} /\ by_size = "simple"
        THEN "medium" ELSE by_size

\* C12: the complexity Perception stores is simple up to 200 characters of
\* calldata, medium up to 1000 and complex above, never below medium for an
\* intent of type swap or approve, and Perception's next_step is planner
\* exactly when the calldata has more than 1000 characters
C12_Classification ==
    (pipe.pc # "idle" /\ "complexity" \in DOMAIN pipe.ctx.metadata) =>
       /\ pipe.ctx.metadata.complexity =
             ExpectedComplexity(pipe.ctx.metadata.key_params.tx_data.len,
                                ParseUserIntent(pipe.ctx.user_intent))
       /\ pipe.ctx.perception_next_step # "none" =>
             (pipe.ctx.perception_next_step = "planner"
                <=> pipe.ctx.metadata.key_params.tx_data.len > 1000)

\* an address that is a 0x-prefixed string of 40 hexadecimal digits
WellFormedAddress(a) == a.t = "str" /\ a.pre /\ a.len = 42 /\ a.hex

\* the raw dict gives the address, under its canonical or its short key,
\* and it is well formed
AddressGiven(tx, key, alias) ==
    /\ {key, alias} \cap DOMAIN tx # {}
    /\ \A k \in {key, alias} \cap DOMAIN tx : WellFormedAddress(tx[k])

\* the value of the raw dict, when there is one, reads as a number
ValueReads(tx) ==
    \A k \in ValueKeys \cap DOMAIN tx :
       \/ tx[k].t \in {"int", "float"}
       \/ tx[k].t = "str" /\ (IntParses(tx[k].v) \/
             (StartsWith0x(tx[k].v) /\ HexParses(tx[k].v)))

\* the transactions Perception has to reject
MustReject(tx) ==
    \/ ~AddressGiven(tx, "tx_from", "from")
    \/ ~AddressGiven(tx, "tx_to", "to")
    \/ ~ValueReads(tx)

\* Perception has just run in a pipeline whose results can be built
AfterPerception ==
    /\ pipe.pc \in {"planner", "executor", "cleanup"}
    /\ ~pipe.result_validated
    /\ pipe.ctx.step_history = <<"perception">>

\* C13: Perception fails, and run reports an error of stage perception
\* without a pass of the Executor, exactly for the transactions with a
\* missing or malformed sender or recipient or an unreadable value
C13_RejectsExactly ==
    AfterPerception =>
       /\ MustReject(pipe.ctx.tx_data) <=>
             (pipe.report.kind = "error" /\ pipe.report.error_stage = "perception")
       /\ pipe.report.kind = "error" => pipe.exec_passes = 0

\* C14: in an audit of a transaction with a missing or malformed address or
\* an unreadable value the Executor passes at most once and Reflection never
\* sends the run back to the Executor
C14_ValidationNotRetried ==
    (pipe.pc # "idle" /\ MustReject(pipe.ctx.tx_data)) =>
       pipe.exec_passes <= 1 /\ pipe.pc # "executor_retry"

(***************************************************************************)
(* The HTTP service: POST /api/v1/simulate and POST /v1/chat/completions   *)
(* of main.py over SSSEAHandler.  SSSEAHandler.__init__ assigns            *)
(* _roma_pipeline = None after _create_analyzer has run, so a handler      *)
(* never holds a pipeline; its analyzer is None when _create_analyzer had  *)
(* built the pipeline.  Lines 380 and 385 of openai_compat.py are read as  *)
(* the string literals they are meant to be.                               *)
(***************************************************************************)
\* the fields of the JSON body of an audit request
HttpAddrs ==
    { GoodAddr, [GoodAddr EXCEPT !.len = 41], [GoodAddr EXCEPT !.hex = FALSE],
      Absent }

HttpValues == { Str(<<"0", "x", "6", "4">>), Str(<<"a", "b", "c">>), Absent }

HttpIntents == { [t |-> "str", v |-> "swap"], [t |-> "str", v |-> "empty"],
                 Absent }

HttpBodies ==
    { MkDict([user_intent |-> i, tx_from |-> f, tx_to |-> t, tx_value |-> v]) :
        i \in HttpIntents, f \in HttpAddrs,
        t \in {GoodAddr, [GoodAddr EXCEPT !.pre = FALSE]}, v \in HttpValues }

\* where a chat request carries the transaction: the arguments of a
\* simulate_tx tool call, a JSON document in the last message, or neither
Carriers == {"tool_call", "json", "text"}

\* what SSSEAPipeline.run does when a handler has a pipeline
RunOutcomes == {"verdict", "error_report", "raises"}

\* SimulationRequest(...) raises a ValidationError: user_intent has
\* min_length 1, validate_address, validate_tx_value
SimulationRequestRaises(user_intent, tx_from, tx_to, tx_value) ==
    \/ user_intent.v = "empty"
    \/ \E a \in {tx_from, tx_to} : ~a.pre \/ a.len # 42 \/ ~a.hex
    \/ ~TxValueValid(tx_value.v)

\* the request is built from data["tx_from"], data["tx_to"] and the
\* defaults of the other fields; a missing key raises KeyError
BuildRequestRaises(user_intent, data) ==
    \/ "tx_from" \notin DOMAIN data
    \/ "tx_to" \notin DOMAIN data
    \/ SimulationRequestRaises(user_intent, data.tx_from, data.tx_to,
                               Get(data, "tx_value", Str(<<"0">>)))

\* an answer of the service
Answer(status, verdict) == [status |-> status, verdict |-> verdict]

\* simulate_transaction: every exception becomes HTTPException(500)
SimulateTransaction(h, data) ==
    IF \/ BuildRequestRaises(Get(data, "user_intent",
                                 [t |-> "str", v |-> "empty"]), data)
       \/ h.analyzer = "none"
    THEN Answer(500, FALSE)
    ELSE Answer(200, TRUE)

\* the example transaction _extract_transaction_params falls back to
DefaultExample ==
    [intent |-> [t |-> "str", v |-> "audit"],
     params |-> [tx_from |-> GoodAddr, tx_to |-> GoodAddr,
                 tx_value |-> Str(<<"0">>)]]

\* _extract_transaction_params
ExtractTransactionParams(carrier, data) ==
    LET given == [intent |-> Get(data, "user_intent",
                                 [t |-> "str", v |-> "empty"]),
                  params |-> data]
    IN  CASE carrier = "tool_call" -> given
          [] carrier = "json" /\ {"tx_from", "tx_to"} \subseteq DOMAIN data -> given
          [] OTHER -> DefaultExample

\* _handle_with_analyzer raises
HandleWithAnalyzerRaises(h, x) ==
    BuildRequestRaises(x.intent, x.params) \/ h.analyzer = "none"

\* _handle_simulation: through the pipeline when the handler has one, with
\* the analyzer as the fallback when the pipeline path raises
HandleSimulation(h, x, run_outcome) ==
    IF h.roma_pipeline /\ run_outcome # "raises"
    THEN Answer(200, run_outcome = "verdict")
    ELSE IF HandleWithAnalyzerRaises(h, x) THEN Answer(500, FALSE)
    ELSE Answer(200, TRUE)

\* chat_completions over handle_chat_completion: an audit when the request
\* names the tool simulate_tx, a plain chat answer otherwise
ChatCompletions(h, tools, carrier, data, run_outcome) ==
    IF tools
    THEN HandleSimulation(h, ExtractTransactionParams(carrier, data),
                          run_outcome)
    ELSE Answer(200, FALSE)

\* the handler the lifespan of the application constructs
HttpInit ==
    http \in { [phase |-> "ready", analyzer |-> a, roma_pipeline |-> FALSE] :
                 a \in {"mock", "none"} }

\* POST /api/v1/simulate
HttpSimulate ==
    /\ http.phase \in {"ready", "answered"}
    /\ \E data \in HttpBodies :
         http' = [phase |-> "answered", analyzer |-> http.analyzer,
                  roma_pipeline |-> http.roma_pipeline,
                  endpoint |-> "simulate", audit |-> TRUE, data |-> data,
                  carrier |-> "body",
                  answer |-> SimulateTransaction(http, data)]
    /\ UNCHANGED <<norm, att, tee, anvil, pipe, log, pool, exec, fx>>

\* POST /v1/chat/completions
HttpChat ==
    /\ http.phase \in {"ready", "answered"}
    /\ \E data \in HttpBodies, carrier \in Carriers, tools \in BOOLEAN,
          run_outcome \in RunOutcomes :
         http' = [phase |-> "answered", analyzer |-> http.analyzer,
                  roma_pipeline |-> http.roma_pipeline,
                  endpoint |-> "chat", audit |-> tools, data |-> data,
                  carrier |-> carrier,
                  answer |-> ChatCompletions(http, tools, carrier, data,
                                             run_outcome)]
    /\ UNCHANGED <<norm, att, tee, anvil, pipe, log, pool, exec, fx>>

InitHttp ==
    /\ HttpInit
    /\ norm = NormIdle
    /\ att = AttIdle
    /\ tee = TeeNew("docker-sim")
    /\ anvil = AnvilNew
    /\ pipe = PipeOff
    /\ log = LogInit
    /\ pool = PoolOff
    /\ exec = ExecOff /\ fx = FxOff

NextHttp == HttpSimulate \/ HttpChat

SpecHttp == InitHttp /\ [][NextHttp]_vars

\* the body of the request fails validation: sender or recipient missing
\* or malformed, the value unreadable, or no intent
FailsValidation(data) ==
    BuildRequestRaises(Get(data, "user_intent", [t |-> "str", v |-> "empty"]),
                       data)

\* C15: an audit request whose body fails validation is answered with
\* status 400 on both endpoints
C15_ValidationIs400 ==
    (http.phase = "answered" /\ http.audit /\ http.carrier # "text"
        /\ FailsValidation(http.data))
       => http.answer.status = 400

(***************************************************************************)
(* Properties of the Executor, Reflection and the verdict                  *)
(***************************************************************************)
\* the simulation ran and the simulated transaction itself failed, with
\* no large outflow among the asset changes
OnlyReverted(sim) ==
    /\ sim.data = "simulation" /\ sim.success /\ ~sim.execution_success
    /\ \A i \in 1..Len(sim.asset_changes) :
          sim.asset_changes[i].change >= 0 - WeiPerEther

\* C16: a run whose simulated transaction reverted, with nothing else
\* wrong, returns a verdict (no error report), the verdict is WARNING and
\* has no critical finding
C16_RevertedIsWarning ==
    (Returned /\ OnlyReverted(log.simulation_result)) =>
       /\ log.report.kind = "verdict"
       /\ log.report.verdict.risk_level = "WARNING"
       /\ "critical" \notin log.report.reflection.anomalies

\* C17: in the fast path the Executor calls start, simulate_tx and, exactly
\* when the simulation succeeded, analyze_trace and detect_attack, in this
\* order; each result is stored under its own key (start, simulation,
\* trace_analysis, attack_detection) and the simulation result is also the
\* context's simulation_result.
C17_FastPathOrder ==
    (pipe.pc # "off" /\ pipe.last_pass.mode = "simple") =>
       LET p == pipe.last_pass
           ok == p.results.simulation.success
       IN  /\ p.calls = <<"start", "simulate_tx">> \o
                        (IF ok THEN <<"analyze_trace", "detect_attack">>
                         ELSE <<>>)
           /\ DOMAIN p.results = {"start", "simulation"} \cup
                        (IF ok THEN {"trace_analysis", "attack_detection"}
                         ELSE {})
           /\ pipe.ctx.simulation_result = p.results.simulation

\* a fast-path pass whose simulation failed, so that the analyses were skipped
C17_Witness ==
    /\ pipe.pc # "off"
    /\ pipe.last_pass.mode = "simple"
    /\ ~pipe.last_pass.results.simulation.success
    /\ Len(pipe.last_pass.calls) = 2

\* a fast-path pass whose simulation succeeded, with all four results
C17_WitnessAll ==
    /\ pipe.pc # "off"
    /\ pipe.last_pass.mode = "simple"
    /\ pipe.last_pass.results.simulation.success
    /\ DOMAIN pipe.last_pass.results =
          {"start", "simulation", "trace_analysis", "attack_detection"}

(***************************************************************************)
(* The Executor walking a plan, coroutine by coroutine: _execute_plan,     *)
(* _execute_parallel with asyncio.gather, _execute_task.  exec is          *)
(*   plan       the plan of context.metadata                               *)
(*   g          the group (the task, in a plan without groups) reached     *)
(*   open       the coroutines of group g are being gathered               *)
(*   started    how many coroutines of group g have started                *)
(*   gathered   what the finished coroutines of group g returned or raised *)
(*   results    the results dict of _execute_plan                          *)
(*   invoked, finished   the <<group, position>> of the calls of           *)
(*              _execute_task that have begun, and that have returned      *)
(*   gathers, outcomes   per finished group, what gather returned and the  *)
(*              dict _execute_parallel returned                            *)
(***************************************************************************)
\* the toolkits the Executor has
RegisteredTools == {"anvil_simulator", "tee_manager", "forensics_analyzer"}

\* a subtask dict; with tool "absent" the dict has no "tool" key
SubTask(id, priority, tool) ==
    IF tool = "absent" THEN [id |-> id, priority |-> priority]
    ELSE [id |-> id, priority |-> priority, tool |-> tool]

\* the task lists of the model: three subtasks, the first critical or not,
\* the second with a registered tool, an unregistered one or none
WalkTasks ==
    { << SubTask("t1", p, "anvil_simulator"), SubTask("t2", "high", tool),
         SubTask("t3", "medium", "forensics_analyzer") >> :
        p \in {"critical", "high"},
        tool \in {"forensics_analyzer", "unregistered", "absent"} }

\* the parallel_groups of the model: none, two groupings of the three
\* subtasks, a group that lists a subtask twice, a group with an unknown id
WalkGroups ==
    { <<>>,
      << <<"t1", "t2">>, <<"t3">> >>,
      << <<"t1">>, <<"t2", "t3">> >>,
      << <<"t1", "t1">>, <<"t2", "t3">> >>,
      << <<"t1", "zz">>, <<"t3">> >> }

WalkPlans == { [tasks |-> t, parallel_groups |-> g] :
                 t \in WalkTasks, g \in WalkGroups }

\* what the call of a registered tool does: it returns a ToolkitResult that
\* succeeded or failed, or it raises (validate_input is outside __call__'s try)
ToolOutcomes == {"ok", "failed", "raised"}

\* ToolkitResult.to_dict()
ToolkitReturn(tool, ok) ==
    [success |-> ok, tool_name |-> tool,
     data |-> IF ok THEN "data" ELSE "None",
     error |-> IF ok THEN "None" ELSE "failed"]

\* the failure dict _execute_task builds
TaskFailed(task_id, error) ==
    [success |-> FALSE, error |-> error, task_id |-> task_id]

\* an exception leaving a coroutine
Raised(e) == [raised |-> e]
IsException(r) == "raised" \in DOMAIN r

\* _execute_task: task["tool"], get_toolkit, the call of the tool
TaskResult(task, outcome) ==
    IF "tool" \notin DOMAIN task THEN Raised("KeyError")
    ELSE IF task.tool \notin RegisteredTools
    THEN TaskFailed(task.id, "unavailable")
    ELSE IF outcome = "raised" THEN TaskFailed(task.id, "raised")
    ELSE ToolkitReturn(task.tool, outcome = "ok")

\* a gather that returns when the first coroutine has finished
AnyDone(n, done) == done # {}

\* await asyncio.gather(*coroutines, return_exceptions=True) returns when
\* each of the n coroutines has finished
GatherDone(n, done) == done = 1..n

\* the loop over zip(task_ids, results_list): an exception becomes a
\* failure dict, a later entry with the same id replaces an earlier one
GroupResults(task_ids, results_list) ==
    LET at == { i \in DOMAIN results_list : i \in 1..Len(task_ids) }
        last(id) == CHOOSE i \in at :
                       /\ task_ids[i] = id
                       /\ \A j \in at : task_ids[j] = id => j <= i
    IN  [id \in { task_ids[i] : i \in at } |->
           IF IsException(results_list[last(id)])
           THEN [success |-> FALSE, error |-> results_list[last(id)].raised]
           ELSE results_list[last(id)]]

\* dict.update
Update(d, more) ==
    [k \in DOMAIN d \cup DOMAIN more |->
        IF k \in DOMAIN more THEN more[k] ELSE d[k]]

\* the ids of the subtasks of a plan
TaskIds(tasks) == { tasks[i].id : i \in 1..Len(tasks) }

\* what _execute_plan walks: the groups, or the subtasks one by one
WalkLen(plan) ==
    IF plan.parallel_groups # <<>> THEN Len(plan.parallel_groups)
    ELSE Len(plan.tasks)

ExecReady == [phase |-> "ready"]

\* _execute_plan is entered with the plan of the context
ExecutePlanBegin ==
    /\ exec.phase = "ready"
    /\ \E plan \in WalkPlans :
         exec' = [phase |-> "walking", plan |-> plan, g |-> 1,
                  open |-> FALSE, started |-> 0, gathered |-> <<>>,
                  results |-> <<>>, invoked |-> {}, finished |-> {},
                  gathers |-> <<>>, outcomes |-> <<>>]
    /\ UNCHANGED <<norm, att, tee, anvil, pipe, log, http, pool, fx>>

\* _execute_parallel up to gather: task_map and the list of coroutines; an
\* id that names no subtask raises KeyError out of _execute_plan
ExecuteParallelBegin ==
    /\ exec.phase = "walking"
    /\ exec.plan.parallel_groups # <<>>
    /\ ~exec.open
    /\ exec.g <= Len(exec.plan.parallel_groups)
    /\ \E ids \in {exec.plan.parallel_groups[exec.g]} :
         exec' = IF \E i \in 1..Len(ids) : ids[i] \notin TaskIds(exec.plan.tasks)
                 THEN [exec EXCEPT !.phase = "raised"]
                 ELSE [exec EXCEPT !.open = TRUE, !.started = 0,
                                   !.gathered = <<>>]
    /\ UNCHANGED <<norm, att, tee, anvil, pipe, log, http, pool, fx>>

\* the event loop starts the next coroutine of the group (gather schedules
\* them in the order of the list)
TaskStart ==
    /\ exec.phase = "walking"
    /\ exec.open
    /\ exec.started < Len(exec.plan.parallel_groups[exec.g])
    /\ exec' = [exec EXCEPT !.started = @ + 1,
                  !.invoked = @ \cup {<<exec.g, exec.started + 1>>}]
    /\ UNCHANGED <<norm, att, tee, anvil, pipe, log, http, pool, fx>>

\* a started coroutine of the group returns or raises
TaskFinish ==
    /\ exec.phase = "walking"
    /\ exec.open
    /\ \E pos \in (1..exec.started) \ DOMAIN exec.gathered :
       \E outcome \in ToolOutcomes :
         exec' = [exec EXCEPT
                    !.gathered =
                       Put(@, pos,
                           TaskResult(
                              TaskById(exec.plan.tasks,
                                       exec.plan.parallel_groups[exec.g][pos]),
                              outcome)),
                    !.finished = @ \cup {<<exec.g, pos>>}]
    /\ UNCHANGED <<norm, att, tee, anvil, pipe, log, http, pool, fx>>

\* gather returns; _execute_parallel assembles the dict of the group and
\* _execute_plan merges it into results
ExecuteParallelEnd ==
    /\ exec.phase = "walking"
    /\ exec.open
    /\ GatherDone(Len(exec.plan.parallel_groups[exec.g]), DOMAIN exec.gathered)
    /\ \E out \in {GroupResults(exec.plan.parallel_groups[exec.g],
                                exec.gathered)} :
         exec' = [exec EXCEPT !.open = FALSE, !.g = @ + 1,
                    !.results = Update(@, out),
                    !.gathers = Append(@, exec.gathered),
                    !.outcomes = Append(@, out)]
    /\ UNCHANGED <<norm, att, tee, anvil, pipe, log, http, pool, fx>>

\* one turn of the loop of a plan without groups: the subtask is awaited,
\* its result stored, and a failed critical subtask ends the loop; an
\* exception leaves _execute_plan
SequentialTask ==
    /\ exec.phase = "walking"
    /\ exec.plan.parallel_groups = <<>>
    /\ exec.g <= Len(exec.plan.tasks)
    /\ \E outcome \in ToolOutcomes :
       \E task \in {exec.plan.tasks[exec.g]} :
       \E r \in {TaskResult(task, outcome)} :
         exec' = IF IsException(r)
                 THEN [exec EXCEPT !.phase = "raised",
                         !.invoked = @ \cup {<<exec.g, 1>>}]
                 ELSE [exec EXCEPT
                         !.g = IF task.priority = "critical" /\ ~r.success
                               THEN Len(exec.plan.tasks) + 1 ELSE @ + 1,
                         !.results = Put(@, task.id, r),
                         !.invoked = @ \cup {<<exec.g, 1>>},
                         !.finished = @ \cup {<<exec.g, 1>>}]
    /\ UNCHANGED <<norm, att, tee, anvil, pipe, log, http, pool, fx>>

\* the end of _execute_plan: success when more than half of the results
\* succeeded
ExecutePlanReturn ==
    /\ exec.phase = "walking"
    /\ ~exec.open
    /\ exec.g > WalkLen(exec.plan)
    /\ exec' = [exec EXCEPT !.phase = "returned"]
    /\ UNCHANGED <<norm, att, tee, anvil, pipe, log, http, pool, fx>>

InitPlan ==
    /\ exec = ExecReady
    /\ norm = NormIdle
    /\ att = AttIdle
    /\ tee = TeeNew("docker-sim")
    /\ anvil = AnvilNew
    /\ pipe = PipeOff
    /\ log = LogInit
    /\ http = HttpOff
    /\ pool = PoolOff
    /\ fx = FxOff

NextPlan ==
    \/ ExecutePlanBegin
    \/ ExecuteParallelBegin
    \/ TaskStart
    \/ TaskFinish
    \/ ExecuteParallelEnd
    \/ SequentialTask
    \/ ExecutePlanReturn

SpecPlan == InitPlan /\ [][NextPlan]_vars

(***************************************************************************)
(* Properties of the plan path                                             *)
(***************************************************************************)
Walking == exec.phase \in {"walking", "returned", "raised"}

\* the subtask at position g of the walk, in a plan without groups, or a
\* subtask of group g, has returned a failure and has priority critical
FailedCriticalAt(g) ==
    IF exec.plan.parallel_groups = <<>>
    THEN /\ <<g, 1>> \in exec.finished
         /\ exec.plan.tasks[g].priority = "critical"
         /\ ~exec.results[exec.plan.tasks[g].id].success
    ELSE /\ g <= Len(exec.outcomes)
         /\ \E id \in DOMAIN exec.outcomes[g] :
              /\ ~exec.outcomes[g][id].success
              /\ TaskById(exec.plan.tasks, id).priority = "critical"

\* every failure in results is a dict of success, error and task_id
C18_FailureRecord ==
    Walking =>
       \A id \in DOMAIN exec.results :
          ~exec.results[id].success =>
             /\ DOMAIN exec.results[id] = {"success", "error", "task_id"}
             /\ exec.results[id].task_id = id

\* after a failed critical subtask nothing later in the walk is invoked
C18_CriticalStops ==
    Walking =>
       \A g \in 1..WalkLen(exec.plan) :
          FailedCriticalAt(g) => \A c \in exec.invoked : c[1] <= g

\* a walk that returned without a failed critical subtask has invoked every
\* group
C18_OthersContinue ==
    (exec.phase = "returned"
        /\ \A g \in 1..WalkLen(exec.plan) : ~FailedCriticalAt(g))
       => \A g \in 1..WalkLen(exec.plan) : \E c \in exec.invoked : c[1] = g

\* C18: in the plan path a failing subtask is recorded as a dict of success
\* false, error and task_id; after a failing subtask of priority critical no
\* subtask of a later group is invoked; without one every group is executed.
C18_CriticalAborts ==
    /\ C18_FailureRecord
    /\ C18_CriticalStops
    /\ C18_OthersContinue

\* C19: walking parallel groups, every subtask of a group has started and
\* finished before a subtask of the next group starts; the outcome of a
\* group has exactly one result for each subtask of the group; an exception
\* of one subtask is that subtask's failure and the siblings' results stay.
C19_GroupsGathered ==
    (Walking /\ exec.plan.parallel_groups # <<>>) =>
       /\ \A c \in exec.invoked :
            \A g \in 1..(c[1] - 1) :
               \A pos \in 1..Len(exec.plan.parallel_groups[g]) :
                  <<g, pos>> \in exec.finished
       /\ \A g \in 1..Len(exec.outcomes) :
            LET ids == exec.plan.parallel_groups[g]
                got == exec.gathers[g]
                out == exec.outcomes[g]
            IN  /\ DOMAIN out = { ids[i] : i \in 1..Len(ids) }
                /\ DOMAIN got = 1..Len(ids)
                /\ \A pos \in 1..Len(ids) :
                     (\A q \in (pos + 1)..Len(ids) : ids[q] # ids[pos]) =>
                        out[ids[pos]] =
                           IF "raised" \in DOMAIN got[pos]
                           THEN [success |-> FALSE,
                                 error |-> got[pos].raised]
                           ELSE got[pos]

\* a group of two whose second subtask raised and whose first succeeded has
\* been gathered, and the next group has begun
C19_Witness ==
    /\ Walking
    /\ exec.plan.parallel_groups # <<>>
    /\ Len(exec.outcomes) >= 1
    /\ Len(exec.plan.parallel_groups[1]) = 2
    /\ "raised" \in DOMAIN exec.gathers[1][2]
    /\ exec.outcomes[1][exec.plan.parallel_groups[1][1]].success
    /\ \E c \in exec.invoked : c[1] = 2

(***************************************************************************)
(* AnvilScreenerPool.  pool is                                             *)
(*   pool_size   the size given to __init__                                *)
(*   _pool       the list of the pool: ids of screeners                    *)
(*   screeners   every AnvilScreener the pool has constructed, by id, with *)
(*               whether it was appended to _pool                          *)
(*   held        per audit, the screeners acquire returned to it that it   *)
(*               has not passed to release                                 *)
(*   last        the last call and whether it raised                       *)
(***************************************************************************)
MaxPoolSize == 2
MaxCreated == 3
MaxHeld == 2

\* the audits that share the pool
Audits == {"audit1", "audit2"}

\* AnvilScreenerPool.__init__
PoolNew(pool_size) ==
    [phase |-> "on", pool_size |-> pool_size, _pool |-> <<>>,
     screeners |-> <<>>, held |-> [a \in Audits |-> <<>>], last |-> "init"]

\* acquire: under the lock, a screener is constructed, started and appended
\* only when the list is empty; the first screener of the list is returned
Acquire(p, audit, outcome) ==
    IF p._pool = <<>>
    THEN CHOOSE r \in
           { IF st.raised
             THEN [p EXCEPT !.screeners =
                               Append(@, [s |-> st.s, pooled |-> FALSE]),
                            !.last = "acquire raised"]
             ELSE [p EXCEPT !.screeners =
                               Append(@, [s |-> st.s, pooled |-> TRUE]),
                            !._pool = <<Len(p.screeners) + 1>>,
                            !.held[audit] = Append(@, Len(p.screeners) + 1),
                            !.last = "acquire"] :
               st \in {ScreenerStart(ScreenerNew, outcome)} } : TRUE
    ELSE [p EXCEPT !.held[audit] = Append(@, p._pool[1]),
                   !.last = "acquire"]

\* release: pass
Release(p) == [p EXCEPT !.last = "release"]

\* shutdown: stop every screener of the list, clear the list
Shutdown(p) ==
    [p EXCEPT
       !.screeners = [i \in DOMAIN @ |->
                        IF \E k \in 1..Len(p._pool) : p._pool[k] = i
                        THEN [@[i] EXCEPT !.s = ScreenerStop(@)]
                        ELSE @[i]],
       !._pool = <<>>,
       !.last = "shutdown"]

\* an audit calls acquire
PoolAcquire ==
    /\ pool.phase = "on"
    /\ \E audit \in Audits, outcome \in StartOutcomes :
         /\ Len(pool.held[audit]) < MaxHeld
         /\ pool._pool = <<>> => Len(pool.screeners) < MaxCreated
         /\ pool' = Acquire(pool, audit, outcome)
    /\ UNCHANGED <<norm, att, tee, anvil, pipe, log, http, exec, fx>>

\* an audit passes a screener it holds to release and forgets it
PoolRelease ==
    /\ pool.phase = "on"
    /\ \E audit \in Audits :
       \E k \in 1..Len(pool.held[audit]) :
         pool' = [Release(pool) EXCEPT !.held[audit] = Without(@, k)]
    /\ UNCHANGED <<norm, att, tee, anvil, pipe, log, http, exec, fx>>

\* shutdown is called
PoolShutdown ==
    /\ pool.phase = "on"
    /\ pool' = Shutdown(pool)
    /\ UNCHANGED <<norm, att, tee, anvil, pipe, log, http, exec, fx>>

InitPool ==
    /\ pool \in { PoolNew(n) : n \in 1..MaxPoolSize }
    /\ norm = NormIdle
    /\ att = AttIdle
    /\ tee = TeeNew("docker-sim")
    /\ anvil = AnvilNew
    /\ pipe = PipeOff
    /\ log = LogInit
    /\ http = HttpOff
    /\ exec = ExecOff /\ fx = FxOff

NextPool == PoolAcquire \/ PoolRelease \/ PoolShutdown

SpecPool == InitPool /\ [][NextPool]_vars

\* the audits that hold screener i, with the number of times each holds it
Holds(i) ==
    { h \in Audits \X (1..MaxHeld) :
         h[2] <= Len(pool.held[h[1]]) /\ pool.held[h[1]][h[2]] = i }

\* a screener is held at most once at a time
C20_Exclusive ==
    pool.phase = "on" =>
       \A i \in DOMAIN pool.screeners : Cardinality(Holds(i)) <= 1

\* the list never has more than pool_size screeners
C20_Bounded ==
    pool.phase = "on" => Len(pool._pool) <= pool.pool_size

\* after shutdown the list is empty and every screener that was in it is
\* stopped
C20_ShutdownClean ==
    (pool.phase = "on" /\ pool.last = "shutdown") =>
       /\ pool._pool = <<>>
       /\ \A i \in DOMAIN pool.screeners :
            pool.screeners[i].pooled => ~IsRunning(pool.screeners[i].s)

\* C20: for every interleaving of acquire and release by several audits a
\* screener is held by at most one audit at a time (two acquires without a
\* release between them never return the same screener), the pool never
\* owns more than pool_size screeners, and after shutdown every screener is
\* stopped and the pool is empty.
C20_PoolExclusive ==
    /\ C20_Exclusive
    /\ C20_Bounded
    /\ C20_ShutdownClean

(***************************************************************************)
(* Properties of the screener's start and of the forensics detectors       *)
(***************************************************************************)
\* C21: when the readiness poll of start times out the child is killed
\* before the error is raised, so after a failed start the screener is not
\* running; whenever is_running is true the process info and the RPC client
\* are set.
C21_FailedStartKillsChild ==
    /\ (log.op = "start" /\ ~log.success) => ~IsRunning(anvil.s)
    /\ IsRunning(anvil.s) => (anvil.s.info /\ anvil.s.w3)

(***************************************************************************)
(* Calls of the forensics toolkit.  fx is                                  *)
(*   clock   the reading of the clock when the last call returned          *)
(*   prev    the call before the last one ("none" before the second call)  *)
(*   last    the last call: action, arguments, and the dict of the         *)
(*           ToolkitResult returned                                        *)
(***************************************************************************)
\* the call traces given to the toolkit: those of the simulator, one callee
\* at the depths 1, 5 and 9, and traces of the depths 30 and 31
ForensicTraces ==
    TraceLists
    \cup { << CallTrace(1, "0xa", FALSE), CallTrace(5, "0xa", FALSE),
              CallTrace(9, "0xa", FALSE) >>,
           << CallTrace(30, "0xa", FALSE) >>,
           << CallTrace(31, "0xa", FALSE) >> }

\* the asset changes given to detect_attack: those of the simulator and an
\* outflow of two whole units in two changes of one unit
ForensicChanges ==
    ChangeLists
    \cup { << EthChange(0 - WeiPerEther), EthChange(0 - WeiPerEther) >>,
           << EthChange(0 - (2 * WeiPerEther)) >> }

\* the calldata given to check_risk_patterns: whether it starts with "0x",
\* its length, the selector it starts with, whether it contains 64 times f
CallDatas ==
    { [pre |-> TRUE, len |-> 2, selector |-> "none", ones |-> FALSE],
      [pre |-> TRUE, len |-> 138, selector |-> "0x095ea7b3", ones |-> FALSE],
      [pre |-> TRUE, len |-> 138, selector |-> "0x095ea7b3", ones |-> TRUE],
      [pre |-> TRUE, len |-> 138, selector |-> "0x12345678", ones |-> FALSE] }

\* the keys of DANGEROUS_SELECTORS the model uses
DANGEROUS_SELECTORS == {"0x095ea7b3", "0xa9059cbb"}

\* _extract_selector
ExtractSelector(data) ==
    IF data.pre /\ data.len >= 10 THEN data.selector ELSE "0x00000000"

\* max((t.get("depth", 0) for t in call_traces), default=0)
MaxDepthOr0(traces) == IF Len(traces) = 0 THEN 0 ELSE MaxTraceDepth(traces)

\* ToolkitResult.to_dict() of a result of the forensics toolkit: the data,
\* the timestamp of the default factory and the execution_time of __call__
Stamped(data, now, elapsed) ==
    [success |-> TRUE, tool_name |-> "forensics_analyzer", data |-> data,
     timestamp |-> now, execution_time |-> elapsed]

\* _handle_analyze_trace: the data of the result.  (_detect_dangerous_calls
\* reads input_data or input; no trace of the model has the text
\* "delegatecall".)
AnalyzeTraceData(traces) ==
    IF Len(traces) = 0
    THEN [call_count |-> 0, max_depth |-> 0, findings |-> <<>>]
    ELSE [call_count |-> Len(traces), max_depth |-> MaxDepthOr0(traces),
          findings |->
             (IF MaxDepthOr0(traces) > 20 THEN <<"deep_call_stack">>
              ELSE <<>>)
             \o (IF \E i \in 1..Len(traces) : traces[i].approve
                 THEN <<"dangerous_function">> ELSE <<>>)
             \o (IF DetectReentrancy(traces) THEN <<"reentrancy">>
                 ELSE <<>>)]

\* _handle_check_risk_patterns: the data of the result
CheckRiskPatternsData(data, traces) ==
    [selector |-> ExtractSelector(data),
     risks |->
        (IF ExtractSelector(data) \in DANGEROUS_SELECTORS
         THEN <<"dangerous_selector">> ELSE <<>>)
        \o (IF data.ones THEN <<"unlimited_approval">> ELSE <<>>)
        \o (IF Len(traces) > 0 /\ MaxDepthOr0(traces) > 30
            THEN <<"deep_call_stack">> ELSE <<>>)]

\* the list detected_attacks of _handle_detect_attack, in the order of the
\* five checks
AttackList(traces, changes, native_keys) ==
    (IF DetectReentrancy(traces) THEN <<"reentrancy">> ELSE <<>>)
    \o (IF CheckApprovalTrap(traces, native_keys) THEN <<"approval_trap">>
        ELSE <<>>)
    \o (IF CheckPhishingAttack(changes) THEN <<"phishing">> ELSE <<>>)
    \o (IF CheckDrainAttack(changes) THEN <<"drain">> ELSE <<>>)
    \o (IF CheckFlashloanAttack(traces) THEN <<"flashloan">> ELSE <<>>)

\* _handle_detect_attack: the data of the result
DetectAttackData(traces, changes, native_keys) ==
    LET r == HandleDetectAttack(traces, changes, native_keys)
    IN  [attacks |-> AttackList(traces, changes, native_keys),
         risk_score |-> r.risk_score, risk_level |-> r.risk_level]

\* the readings of the clock, and the elapsed times __call__ measures
Clock == 0..MaxClock
Elapsed == {0, 1}

FxNew == [phase |-> "on", clock |-> 0, prev |-> [action |-> "none"],
          last |-> [action |-> "none"]]

\* a call returns at time now after elapsed: it becomes the last call
Called(f, call, data, now, elapsed) ==
    [f EXCEPT !.clock = now, !.prev = f.last,
              !.last = call @@ [out |-> Stamped(data, now, elapsed)]]

\* forensics(action="analyze_trace", call_traces=..., tx_from=..., tx_to=...)
ForensicsAnalyzeTrace ==
    /\ fx.phase = "on"
    /\ fx.prev.action = "none"
    /\ \E traces \in ForensicTraces, now \in Clock, elapsed \in Elapsed :
         /\ now >= fx.clock
         /\ fx' = Called(fx, [action |-> "analyze_trace", traces |-> traces],
                         AnalyzeTraceData(traces), now, elapsed)
    /\ UNCHANGED <<norm, att, tee, anvil, pipe, log, http, pool, exec>>

\* forensics(action="detect_attack", call_traces=..., asset_changes=...)
ForensicsDetectAttack ==
    /\ fx.phase = "on"
    /\ fx.prev.action = "none"
    /\ \E traces \in ForensicTraces, changes \in ForensicChanges,
          native_keys \in BOOLEAN, now \in Clock, elapsed \in Elapsed :
         /\ now >= fx.clock
         /\ traces = <<>> \/ changes \in {<<>>, <<EthChange(0 - WeiPerEther),
                                                   EthChange(0 - WeiPerEther)>>,
                                          <<EthChange(0 - (2 * WeiPerEther))>>}
         /\ fx' = Called(fx, [action |-> "detect_attack", traces |-> traces,
                              changes |-> changes,
                              native_keys |-> native_keys],
                         DetectAttackData(traces, changes, native_keys),
                         now, elapsed)
    /\ UNCHANGED <<norm, att, tee, anvil, pipe, log, http, pool, exec>>

\* forensics(action="check_risk_patterns", tx_to=..., tx_data=...,
\* call_traces=...)
ForensicsCheckRiskPatterns ==
    /\ fx.phase = "on"
    /\ fx.prev.action = "none"
    /\ \E data \in CallDatas, traces \in ForensicTraces,
          now \in Clock, elapsed \in Elapsed :
         /\ now >= fx.clock
         /\ data.len = 2 \/ traces = <<>>
         /\ fx' = Called(fx, [action |-> "check_risk_patterns",
                              data |-> data, traces |-> traces],
                         CheckRiskPatternsData(data, traces), now, elapsed)
    /\ UNCHANGED <<norm, att, tee, anvil, pipe, log, http, pool, exec>>

InitForensics ==
    /\ fx = FxNew
    /\ norm = NormIdle
    /\ att = AttIdle
    /\ tee = TeeNew("docker-sim")
    /\ anvil = AnvilNew
    /\ pipe = PipeOff
    /\ log = LogInit
    /\ http = HttpOff
    /\ pool = PoolOff
    /\ exec = ExecOff

NextForensics ==
    \/ ForensicsAnalyzeTrace
    \/ ForensicsDetectAttack
    \/ ForensicsCheckRiskPatterns

SpecForensics == InitForensics /\ [][NextForensics]_vars

\* a sequence has the element
Has(seq, x) == \E i \in 1..Len(seq) : seq[i] = x

\* C22: a trace is flagged deep_call_stack exactly when its maximum depth is
\* at least 21 (20 never, 21 always), by analyze_trace and by
\* check_risk_patterns alike.
C22_DeepCallAt21 ==
    /\ (fx.phase = "on" /\ fx.last.action = "analyze_trace") =>
          (Has(fx.last.out.data.findings, "deep_call_stack")
              <=> MaxDepthOr0(fx.last.traces) >= 21)
    /\ (fx.phase = "on" /\ fx.last.action = "check_risk_patterns") =>
          (Has(fx.last.out.data.risks, "deep_call_stack")
              <=> MaxDepthOr0(fx.last.traces) >= 21)

\* some callee of the trace list is called at n or more distinct depths
AtDepths(traces, n) ==
    \E i \in 1..Len(traces) :
       Cardinality({ traces[j].depth :
                       j \in { k \in 1..Len(traces) :
                                 traces[k].to = traces[i].to } }) >= n

\* C23: the reentrancy detector fires exactly for the trace lists in which
\* some callee appears at 3 or more distinct depths, in analyze_trace and in
\* detect_attack alike.
C23_ReentrancyAt3 ==
    /\ (fx.phase = "on" /\ fx.last.action = "analyze_trace") =>
          (Has(fx.last.out.data.findings, "reentrancy")
              <=> AtDepths(fx.last.traces, 3))
    /\ (fx.phase = "on" /\ fx.last.action = "detect_attack") =>
          (Has(fx.last.out.data.attacks, "reentrancy")
              <=> AtDepths(fx.last.traces, 3))

\* C24: when detect_attack reports reentrancy and drain its risk level is
\* CRITICAL, and its risk score lies in [0, 1].
C24_ReentrancyDrainCritical ==
    (fx.phase = "on" /\ fx.last.action = "detect_attack") =>
       /\ (Has(fx.last.out.data.attacks, "reentrancy")
             /\ Has(fx.last.out.data.attacks, "drain"))
            => fx.last.out.data.risk_level = "CRITICAL"
       /\ fx.last.out.data.risk_score.m >= 0
       /\ fx.last.out.data.risk_score.m <= 1000

\* the action and the arguments of a call
CallArgs(c) == [k \in DOMAIN c \ {"out"} |-> c[k]]

\* C26: two calls of the same action with the same arguments return the
\* same result, whatever was called before.
C26_Deterministic ==
    (fx.phase = "on" /\ fx.prev.action # "none"
        /\ CallArgs(fx.prev) = CallArgs(fx.last))
       => fx.prev.out = fx.last.out

\* the same, for the data of the result alone
C26_DataDeterministic ==
    (fx.phase = "on" /\ fx.prev.action # "none"
        /\ CallArgs(fx.prev) = CallArgs(fx.last))
       => fx.prev.out.data = fx.last.out.data

\* the score lies in [0, 1]
C24_ScoreInUnit ==
    (fx.phase = "on" /\ fx.last.action = "detect_attack") =>
       /\ fx.last.out.data.risk_score.m >= 0
       /\ fx.last.out.data.risk_score.m <= 1000

(***************************************************************************)
(* MockIntentAnalyzer.analyze, recorded in fx as a call of its own         *)
(***************************************************************************)
\* the requests given to the analyzer: whether the intent contains "swap",
\* the value in base units, whether the calldata starts with a selector of
\* KnownRiskPatterns.DANGEROUS_SELECTORS, whether tx_to is an official
\* contract
AnalyzerRequests ==
    { [swap |-> s, tx_value |-> v, sensitive |-> d, official |-> o] :
        s \in BOOLEAN, v \in {0, WeiPerEther}, d \in BOOLEAN, o \in BOOLEAN }

\* the simulation results given to the analyzer
AnalyzerResults ==
    { [success |-> ok, asset_changes |-> ch, call_traces |-> tr] :
        ok \in BOOLEAN,
        ch \in ForensicChanges
               \cup { << EthChange(0 - WeiPerEther),
                         [token |-> "USDC", change |-> 5] >> },
        tr \in { <<>>, <<CallTrace(DEEP_CALL_DEPTH, "0xa", FALSE)>>,
                 <<CallTrace(DEEP_CALL_DEPTH + 1, "0xa", FALSE)>> } }

\* _max_risk
MaxRisk(current, new) ==
    IF LevelRank(new) > LevelRank(current) THEN new ELSE current

\* a merge that takes the level of the language model
LlmRisk(rule_level, llm_level) == llm_level

\* _merge_results: the higher of the two levels
FinalRisk(rule_level, llm_level) == MaxRisk(rule_level, llm_level)

\* check 5 of _rule_based_check: "swap" in the intent, asset changes
\* present, the transaction succeeded, and not both a decrease and an
\* increase among the changes
SwapMismatch(req, res) ==
    /\ req.swap
    /\ Len(res.asset_changes) > 0
    /\ ~( /\ \E i \in 1..Len(res.asset_changes) :
               res.asset_changes[i].change < 0
          /\ \E i \in 1..Len(res.asset_changes) :
               res.asset_changes[i].change > 0 )
    /\ res.success

\* _rule_based_check: the level after each of the five checks
RuleBasedLevels(req, res) ==
    LET l1 == IF ~res.success THEN "WARNING" ELSE "SAFE"
        l2 == IF \E i \in 1..Len(res.asset_changes) :
                    /\ res.asset_changes[i].token = "ETH"
                    /\ res.asset_changes[i].change < 0 - req.tx_value
              THEN "CRITICAL" ELSE l1
        l3 == IF Len(res.call_traces) > 0
                 /\ MaxTraceDepth(res.call_traces) > 20
              THEN MaxRisk(l2, "WARNING") ELSE l2
        l4 == IF req.sensitive /\ ~req.official
              THEN MaxRisk(l3, "WARNING") ELSE l3
        l5 == IF SwapMismatch(req, res) THEN MaxRisk(l4, "WARNING") ELSE l4
    IN  <<l1, l2, l3, l4, l5>>

\* MockIntentAnalyzer.analyze: the risk level of _rule_based_check
MockAnalyze(req, res) == RuleBasedLevels(req, res)[5]

\* analyzer.analyze(request, result)
AnalyzerAnalyze ==
    /\ fx.phase = "on"
    /\ fx.last.action = "none"
    /\ \E req \in AnalyzerRequests, res \in AnalyzerResults :
         fx' = [fx EXCEPT !.phase = "analyzed",
                  !.last = [action |-> "analyze", request |-> req,
                            result |-> res,
                            levels |-> RuleBasedLevels(req, res),
                            risk_level |-> MockAnalyze(req, res)]]
    /\ UNCHANGED <<norm, att, tee, anvil, pipe, log, http, pool, exec>>

NextAnalyzer == AnalyzerAnalyze

SpecAnalyzer == InitForensics /\ [][NextAnalyzer]_vars

\* the level the rules as stated give
StatedLevel(req, res) ==
    IF \E i \in 1..Len(res.asset_changes) :
          /\ res.asset_changes[i].token = "ETH"
          /\ res.asset_changes[i].change < 0 - req.tx_value
    THEN "CRITICAL"
    ELSE IF \/ ~res.success
            \/ Len(res.call_traces) > 0 /\ MaxTraceDepth(res.call_traces) > 20
            \/ req.sensitive /\ ~req.official
            \/ /\ req.swap
               /\ res.success
               /\ ~( /\ \E i \in 1..Len(res.asset_changes) :
                          res.asset_changes[i].change < 0
                     /\ \E i \in 1..Len(res.asset_changes) :
                          res.asset_changes[i].change > 0 )
    THEN "WARNING"
    ELSE "SAFE"

\* a level is never lowered by a later check
C27_NeverLowered ==
    fx.phase = "analyzed" =>
       \A i \in 1..4 :
          LevelRank(fx.last.levels[i + 1]) >= LevelRank(fx.last.levels[i])

\* a failed simulation is never SAFE
C27_FailedNotSafe ==
    (fx.phase = "analyzed" /\ ~fx.last.result.success)
       => fx.last.risk_level # "SAFE"

\* C27: analyze returns CRITICAL if some ETH change is below minus the
\* transaction value; else WARNING if the simulation failed, the maximum
\* depth exceeds 20, a sensitive selector targets a non-official contract or
\* a successful swap lacks both a decrease and an increase; else SAFE.  No
\* check lowers the level and a failed simulation is never SAFE.
C27_RuleLevels ==
    /\ fx.phase = "analyzed" =>
          fx.last.risk_level = StatedLevel(fx.last.request, fx.last.result)
    /\ C27_NeverLowered
    /\ C27_FailedNotSafe

\* run is about to return the verdict of the audit of ApproveTx
ApproveAudited ==
    /\ pipe.pc = "cleanup"
    /\ pipe.ctx.tx_data = ApproveTx
    /\ pipe.report.kind = "verdict"

\* C25: for an approve of the all-ones amount to a contract that is not on
\* the official list the verdict is CRITICAL with confidence at least 0.8
\* (confidence is kept in tenths).
C25_ApproveIsCritical ==
    ApproveAudited =>
       /\ pipe.report.verdict.risk_level = "CRITICAL"
       /\ pipe.report.verdict.confidence >= 8

\* the part of C25 that the forensics toolkit does provide when it is given
\* a trace with the keys it reads: approval_trap is among the attacks
C25_ToolkitFindsTrap ==
    (fx.phase = "on" /\ fx.last.action = "detect_attack"
       /\ fx.last.native_keys
       /\ \E i \in 1..Len(fx.last.traces) : fx.last.traces[i].approve)
      => Has(fx.last.out.data.attacks, "approval_trap")

(***************************************************************************)
(* _extract_transaction_params over the messages of a chat request.  A     *)
(* message is its tool_calls and its content; the function does not read   *)
(* the role.                                                               *)
(***************************************************************************)
MaxMessages == 2

\* three argument dicts: two complete ones that differ in the value, and one
\* without tx_to
ChatDicts ==
    { [user_intent |-> [t |-> "str", v |-> "swap"], tx_from |-> GoodAddr,
       tx_to |-> GoodAddr, tx_value |-> Str(<<"0", "x", "6", "4">>)],
      [user_intent |-> [t |-> "str", v |-> "swap"], tx_from |-> GoodAddr,
       tx_to |-> GoodAddr, tx_value |-> Str(<<"0">>)],
      [user_intent |-> [t |-> "str", v |-> "swap"], tx_from |-> GoodAddr] }

\* the tool_calls of a message: none, or one call of simulate_tx or of
\* another function
ChatToolCalls ==
    {<<>>} \cup { <<[name |-> n, arguments |-> d]>> :
                    n \in {"simulate_tx", "get_weather"}, d \in ChatDicts }

\* the content of a message: a JSON object or text that is no JSON
ChatContents == { [json |-> TRUE, data |-> d] : d \in ChatDicts }
                  \cup { [json |-> FALSE] }

ChatMessages ==
    UNION { [1..n -> [tool_calls : ChatToolCalls, content : ChatContents]] :
              n \in 1..MaxMessages }

\* the arguments of the first simulate_tx call of a message, <<>> without
SimulateTxCall(msg) ==
    LET hits == { i \in 1..Len(msg.tool_calls) :
                    msg.tool_calls[i].name = "simulate_tx" }
    IN  IF hits = {} THEN <<>>
        ELSE <<msg.tool_calls[CHOOSE i \in hits :
                                 \A j \in hits : i <= j].arguments>>

\* what is returned for a dict of arguments
Given(data) ==
    [intent |-> Get(data, "user_intent", [t |-> "str", v |-> "empty"]),
     params |-> data]

\* the JSON step and the default of _extract_transaction_params, on the
\* last message
FromLastContent(last) ==
    IF last.content.json
       /\ {"tx_from", "tx_to"} \subseteq DOMAIN last.content.data
    THEN Given(last.content.data)
    ELSE DefaultExample

\* a search for the tool call in the last message alone
LastToolCall(messages) == SimulateTxCall(messages[Len(messages)])

\* for msg in reversed(request.messages): the first message from the end
\* that has a simulate_tx call gives the arguments
ReversedToolCall(messages) ==
    LET with == { i \in 1..Len(messages) : SimulateTxCall(messages[i]) # <<>> }
    IN  IF with = {} THEN <<>>
        ELSE SimulateTxCall(messages[CHOOSE i \in with :
                                        \A j \in with : j <= i])

\* _extract_transaction_params
ExtractFromMessages(messages) ==
    LET call == ReversedToolCall(messages)
    IN  IF call # <<>> THEN Given(call[1])
        ELSE FromLastContent(messages[Len(messages)])

\* _handle_simulation up to the extraction of the parameters
ChatExtract ==
    /\ http.phase = "ready"
    /\ \E messages \in ChatMessages :
         http' = [phase |-> "extracted", analyzer |-> http.analyzer,
                  roma_pipeline |-> http.roma_pipeline,
                  messages |-> messages,
                  extracted |-> ExtractFromMessages(messages)]
    /\ UNCHANGED <<norm, att, tee, anvil, pipe, log, pool, exec, fx>>

NextChat == ChatExtract

SpecChat == InitHttp /\ [][NextChat]_vars

\* the parameters by the stated precedence: the tool call of the last
\* message, else its JSON body, else the defaults
StatedParams(messages) ==
    LET call == LastToolCall(messages)
    IN  IF call # <<>> THEN Given(call[1])
        ELSE FromLastContent(messages[Len(messages)])

\* C28: the parameters of a chat request come from a simulate_tx tool call
\* in the last message, else from a JSON object with tx_from and tx_to in
\* the last message, else from the defaults; a tool call in an earlier
\* message does not override the JSON body of the last message.
C28_Precedence ==
    http.phase = "extracted" =>
       http.extracted = StatedParams(http.messages)

\* the part of C28 that holds: when the last message has a simulate_tx call
\* its arguments are taken, and without any tool call in the request the
\* JSON body of the last message, else the defaults
C28_LastMessageFirst ==
    http.phase = "extracted" =>
       LET last == http.messages[Len(http.messages)]
       IN  /\ SimulateTxCall(last) # <<>>
                => http.extracted = Given(SimulateTxCall(last)[1])
           /\ ReversedToolCall(http.messages) = <<>>
                => http.extracted = FromLastContent(last)

\* the stages of run
Stages == {"perception", "planner", "executor", "reflection", "aggregator"}

\* C29: a call of run that returned gave a verdict report or an error report
\* that names the stage that failed, one of perception, planner, executor,
\* reflection and aggregator; run returns after cleanup.
C29_StageNamed ==
    Returned =>
       \/ log.report.kind = "verdict"
       \/ log.report.kind = "error" /\ log.report.error_stage \in Stages

\* the same for a pipeline whose agents can construct their results
C29_StageNamedUnvalidated ==
    (Returned /\ ~log.result_validated) =>
       \/ log.report.kind = "verdict"
       \/ log.report.kind = "error" /\ log.report.error_stage \in Stages

(***************************************************************************)
(* SimulationRequest(user_intent=..., tx_from=..., tx_to=..., tx_value=...) *)
(* as the handlers of the service construct it.  An address is described   *)
(* by what the validator reads (0x prefix, length, int(v, 16) parses) and  *)
(* by the case of its letters.                                             *)
(***************************************************************************)
RequestAddrs ==
    { GoodAddr, [GoodAddr EXCEPT !.low = FALSE],
      [GoodAddr EXCEPT !.len = 41], [GoodAddr EXCEPT !.pre = FALSE],
      [GoodAddr EXCEPT !.hex = FALSE] }

RequestValues ==
    { Str(<<"0">>), Str(<<"1", "2">>), Str(<<"0", "x", "6", "4">>),
      Str(<<"a", "b", "c">>), Str(<<"0", "x">>) }

RequestIntents == { [t |-> "str", v |-> "swap"], [t |-> "str", v |-> "empty"] }

\* validate_address returns the string it was given
ValidateAddress(v) == v

\* the constructor: a ValidationError, or the request with the validated
\* fields
SimulationRequestNew(user_intent, tx_from, tx_to, tx_value) ==
    IF SimulationRequestRaises(user_intent, tx_from, tx_to, tx_value)
    THEN [raised |-> TRUE]
    ELSE [raised |-> FALSE, user_intent |-> user_intent,
          tx_from |-> ValidateAddress(tx_from),
          tx_to |-> ValidateAddress(tx_to), tx_value |-> tx_value]

\* a handler constructs the request of an audit
BuildRequest ==
    /\ http.phase = "ready"
    /\ \E i \in RequestIntents, f \in RequestAddrs, t \in RequestAddrs,
          v \in RequestValues :
         http' = [phase |-> "built", analyzer |-> http.analyzer,
                  roma_pipeline |-> http.roma_pipeline,
                  args |-> [user_intent |-> i, tx_from |-> f, tx_to |-> t,
                            tx_value |-> v],
                  request |-> SimulationRequestNew(i, f, t, v)]
    /\ UNCHANGED <<norm, att, tee, anvil, pipe, log, pool, exec, fx>>

NextRequest == BuildRequest

SpecRequest == InitHttp /\ [][NextRequest]_vars

\* a 0x-prefixed 42-character hex string
HexAddress(a) == a.pre /\ a.len = 42 /\ a.hex

\* C30: the construction of a SimulationRequest fails for an empty intent,
\* for a sender or recipient that is no 0x-prefixed 42-character hex string
\* and for a value that is neither decimal nor 0x-prefixed hex, and every
\* accepted request has its addresses in lowercase.
C30_ValidatedLowercase ==
    http.phase = "built" =>
       /\ (\/ http.args.user_intent.v = "empty"
           \/ ~HexAddress(http.args.tx_from)
           \/ ~HexAddress(http.args.tx_to)
           \/ ~TxValueValid(http.args.tx_value.v))
            => http.request.raised
       /\ ~http.request.raised
            => /\ HexAddress(http.request.tx_from) /\ http.request.tx_from.low
               /\ HexAddress(http.request.tx_to) /\ http.request.tx_to.low

\* the part of C30 that holds: what is to be rejected is rejected, and an
\* accepted address is a 0x-prefixed 42-character hex string
C30_Rejects ==
    http.phase = "built" =>
       /\ (\/ http.args.user_intent.v = "empty"
           \/ ~HexAddress(http.args.tx_from)
           \/ ~HexAddress(http.args.tx_to)
           \/ ~TxValueValid(http.args.tx_value.v))
            => http.request.raised
       /\ ~http.request.raised
            => HexAddress(http.request.tx_from)
                 /\ HexAddress(http.request.tx_to)

(***************************************************************************)
(* _build_execution_dag on task lists of its own: tasks t1..tn in list     *)
(* order, each with a priority and with dependencies on other tasks of the *)
(* list, cyclic lists included                                             *)
(***************************************************************************)
MaxTasks == 3

Priorities == {"critical", "high", "low"}

TaskName(i) == <<"t", i>>

\* the list of n tasks with these priorities and dependencies
DagTaskList(n, pr, dep) ==
    [i \in 1..n |-> [id |-> TaskName(i), priority |-> pr[i],
                     depends_on |-> { TaskName(j) : j \in dep[i] }]]

\* PlannerAgent.execute from _build_execution_dag on; no task depends on
\* itself
PlannerBuild ==
    /\ exec.phase = "ready"
    /\ \E n \in 1..MaxTasks :
         \E pr \in [1..n -> Priorities], dep \in [1..n -> SUBSET (1..n)] :
            /\ \A i \in 1..n : i \notin dep[i]
            /\ \E subtasks \in {DagTaskList(n, pr, dep)} :
                  exec' = [phase |-> "planned", subtasks |-> subtasks,
                           plan |-> BuildExecutionDag(subtasks)]
    /\ UNCHANGED <<norm, att, tee, anvil, pipe, log, http, pool, fx>>

NextDag == PlannerBuild

SpecDag == InitPlan /\ [][NextDag]_vars

\* no set of tasks in which every task depends on a task of the set
Acyclic(tasks) ==
    \A S \in SUBSET (1..Len(tasks)) :
       S = {} \/ \E i \in S : \A j \in S : tasks[j].id \notin tasks[i].depends_on

\* the position of the task with this id in the ordering
PositionOf(ordered, id) == CHOOSE k \in 1..Len(ordered) : ordered[k].id = id

\* the ordering holds every task of the list once
IsPermutation(ordered, tasks) ==
    /\ Len(ordered) = Len(tasks)
    /\ \A i \in 1..Len(tasks) : \E k \in 1..Len(ordered) : ordered[k] = tasks[i]

\* every task comes after its dependencies
DependenciesFirst(ordered) ==
    \A k \in 1..Len(ordered) :
       \A d \in ordered[k].depends_on :
          \E j \in 1..(k - 1) : ordered[j].id = d

\* the task at step k has the highest priority among the tasks not yet
\* ordered whose dependencies are all ordered
HighestReadyAt(ordered, k) ==
    LET executed == { ordered[j].id : j \in 1..(k - 1) }
    IN  \A m \in k..Len(ordered) :
           ordered[m].depends_on \subseteq executed
             => PriorityValue(ordered[m].priority)
                  <= PriorityValue(ordered[k].priority)

\* C31: for an acyclic task list the ordering is a permutation of the
\* tasks, each task comes after its dependencies, and at every step the
\* task chosen has the highest priority among the ready tasks.
C31_PriorityOrder ==
    (exec.phase = "planned" /\ Acyclic(exec.subtasks)) =>
       /\ IsPermutation(exec.plan.tasks, exec.subtasks)
       /\ DependenciesFirst(exec.plan.tasks)
       /\ \A k \in 1..Len(exec.plan.tasks) : HighestReadyAt(exec.plan.tasks, k)

\* the part of C31 that holds: a permutation with the dependencies first
C31_TopologicalOrder ==
    (exec.phase = "planned" /\ Acyclic(exec.subtasks)) =>
       /\ IsPermutation(exec.plan.tasks, exec.subtasks)
       /\ DependenciesFirst(exec.plan.tasks)

\* the index of the group that holds the task
GroupOf(groups, id) ==
    CHOOSE g \in 1..Len(groups) : \E k \in 1..Len(groups[g]) : groups[g][k] = id

\* C32: for an acyclic task list the parallel groups partition the ordered
\* tasks, each task in exactly one group and in the order of the ordering,
\* and every dependency of a task lies in a strictly earlier group.
C32_GroupsRespectDependencies ==
    (exec.phase = "planned" /\ Acyclic(exec.subtasks)) =>
       LET groups == exec.plan.parallel_groups
           ordered == exec.plan.tasks
       IN  /\ Flatten(groups) = [k \in 1..Len(ordered) |-> ordered[k].id]
           /\ \A g \in 1..Len(groups) : groups[g] # <<>>
           /\ \A k \in 1..Len(ordered) :
                 \A d \in ordered[k].depends_on :
                    GroupOf(groups, d) < GroupOf(groups, ordered[k].id)

\* three tasks planned in two groups: two independent tasks, then one that
\* depends on both
C32_Witness ==
    /\ exec.phase = "planned"
    /\ Acyclic(exec.subtasks)
    /\ Len(exec.plan.parallel_groups) = 2
    /\ Len(exec.plan.parallel_groups[1]) = 2
    /\ \E k \in 1..3 : Cardinality(exec.plan.tasks[k].depends_on) = 2

(***************************************************************************)
(* AggregatorAgent._generate_security_assessment on results of its own:    *)
(* the reflection entry and the simulation entry of _collect_results       *)
(***************************************************************************)
\* risk scores in thousandths
AssessScores == { [m |-> v, ulp |-> 0] : v \in {0, 400, 600, 800, 1000} }

AssessReflections ==
    { [quality_assessment |-> [has_security_concerns |-> c, risk_score |-> s],
       anomalies |-> a] :
        c \in BOOLEAN, s \in AssessScores, a \in SUBSET {"high", "critical"} }

AssessSimulations ==
    { [data |-> "attack", success |-> TRUE, risk_score |-> s] :
        s \in AssessScores } \cup {NoResult}

\* the score assigned for critical anomalies
CriticalScore == [m |-> 900, ulp |-> 0]

\* aggregator._generate_security_assessment(context, results)
AggregatorAssess ==
    /\ fx.phase = "on"
    /\ \E reflection \in AssessReflections, sim \in AssessSimulations :
         fx' = [phase |-> "assessed", reflection |-> reflection, sim |-> sim,
                assessment |-> GenerateSecurityAssessment(reflection, sim)]
    /\ UNCHANGED <<norm, att, tee, anvil, pipe, log, http, pool, exec>>

NextAssess == AggregatorAssess

SpecAssess == InitForensics /\ [][NextAssess]_vars

RECURSIVE MaxOfScores(_)
\* the largest score of a set, 0 for the empty set
MaxOfScores(scores) ==
    IF scores = {} THEN ZeroScore
    ELSE LET s == CHOOSE x \in scores : TRUE
         IN  MaxScore(MaxOfScores(scores \ {s}), s)

\* the scores that contribute to a verdict: Reflection's when it has
\* security concerns, the detector's, and 0.9 for a critical anomaly
Contributors(reflection, sim) ==
    (IF reflection.quality_assessment.has_security_concerns
     THEN {reflection.quality_assessment.risk_score} ELSE {})
    \cup {DataRiskScore(sim)}
    \cup (IF "critical" \in reflection.anomalies THEN {CriticalScore} ELSE {})

\* C33: the risk score of the assessment is the maximum of the scores of
\* its contributors; no later contributor replaces it with a lower one.
C33_ScoreIsMax ==
    fx.phase = "assessed" =>
       fx.assessment.risk_score
          = MaxOfScores(Contributors(fx.reflection, fx.sim))

\* the same over the verdicts of the pipeline's own runs, where the
\* simulation result carries either asset changes or a detector score
C33_PipelineScoreIsMax ==
    HasVerdict =>
       log.report.verdict.risk_score
          = MaxOfScores(Contributors(log.report.reflection,
                                     log.simulation_result))

\* C34: the quality assessment of Reflection reports overall success false
\* whenever the simulation result is missing from the context or reports
\* failure, and true only for a result that is present and reports success.
C34_SuccessNeedsResult ==
    HasVerdict =>
       (log.report.reflection.quality_assessment.overall_success
          <=> (log.simulation_result # NoResult
                 /\ log.simulation_result.success))

\* the part of C34 that holds: a result that reports failure is assessed
\* as no success
C34_FailureIsNoSuccess ==
    (HasVerdict /\ log.simulation_result # NoResult
       /\ ~log.simulation_result.success)
      => ~log.report.reflection.quality_assessment.overall_success

(***************************************************************************)
(* ReflectionAgent._detect_anomalies on simulation results of its own      *)
(***************************************************************************)
MaxChanges == 2

\* the native-asset deltas around one whole unit
ChangeAmounts ==
    {0 - (WeiPerEther + 1), 0 - WeiPerEther, 0 - (WeiPerEther - 1), 0 - 1, 1,
     WeiPerEther + 1}

ReflectedSimulations ==
    { [data |-> "simulation", success |-> s, execution_success |-> e,
       asset_changes |-> ch, call_traces |-> <<>>] :
        s \in BOOLEAN, e \in BOOLEAN,
        ch \in UNION { [1..n -> { EthChange(x) : x \in ChangeAmounts }] :
                         n \in 0..MaxChanges } }

\* reflection._detect_anomalies(context, quality)
ReflectionDetect ==
    /\ fx.phase = "on"
    /\ \E sim \in ReflectedSimulations :
         fx' = [phase |-> "reflected", sim |-> sim,
                anomalies |-> ReflectionAnomalies(sim)]
    /\ UNCHANGED <<norm, att, tee, anvil, pipe, log, http, pool, exec>>

NextReflect == ReflectionDetect

SpecReflect == InitForensics /\ [][NextReflect]_vars

\* an asset change of minus one whole unit or less
LargeOutflow(change) == change.change <= 0 - WeiPerEther

\* C35: Reflection emits a critical unexpected_outflow anomaly for every
\* asset change of at most minus one whole unit, exactly minus one unit
\* included, and none for a smaller outflow or an inflow.
C35_OutflowAtOneUnit ==
    fx.phase = "reflected" =>
       ("critical" \in fx.anomalies
          <=> \E i \in 1..Len(fx.sim.asset_changes) :
                 LargeOutflow(fx.sim.asset_changes[i]))

\* the part of C35 that holds: an outflow of more than one unit is critical
\* and nothing above minus one unit is
C35_OutflowAboveOneUnit ==
    fx.phase = "reflected" =>
       LET changes == fx.sim.asset_changes
       IN  /\ (\E i \in 1..Len(changes) : changes[i].change < 0 - WeiPerEther)
                => "critical" \in fx.anomalies
           /\ (\A i \in 1..Len(changes) : changes[i].change > 0 - WeiPerEther)
                => "critical" \notin fx.anomalies

\* C36: every audit on a pipeline object starts with a retry counter of 0;
\* the retries of earlier audits do not reduce those of a later one.
C36_CounterStartsAtZero ==
    pipe.pc = "perception" => pipe.retry_count = 0

\* the first audit of a pipeline does start at 0
C36_FirstAuditAtZero ==
    (pipe.pc = "perception" /\ pipe.runs = 1) => pipe.retry_count = 0

\* C37: in a run the retry counter of Reflection equals the number of retry
\* passes of the Executor that were performed; Reflection answers executor
\* only for a retry the pipeline then executes.  Stated for the first audit
\* of a pipeline, whose counter starts at 0.
C37_CounterIsRetries ==
    (pipe.pc = "cleanup" /\ pipe.runs = 1 /\ pipe.exec_passes >= 1) =>
       pipe.retry_count = pipe.exec_passes - 1

\* the counter is never below the number of retries performed
C37_CounterAtLeastRetries ==
    (pipe.pc = "cleanup" /\ pipe.runs = 1 /\ pipe.exec_passes >= 1) =>
       pipe.retry_count >= pipe.exec_passes - 1

(***************************************************************************)
(* IntentAnalyzer.analyze with the language model: what the model call     *)
(* gives is a choice of the environment                                    *)
(***************************************************************************)
\* the model call raises, or returns a JSON object: its risk_level entry
\* (one of the three levels, absent, or no level at all) and whether its
\* other entries have the types the answer format asks for
LlmAnswers ==
    { [kind |-> "error"] }
    \cup { [kind |-> "json", risk_level |-> l, typed |-> t] :
             l \in RiskLevels \cup {"absent", "HIGH"}, t \in BOOLEAN }

\* _call_llm fell back to its default result: the call raised, or
\* RiskLevel(...) raised on a level that is none
LlmFailed(answer) ==
    answer.kind = "error" \/ answer.risk_level \notin RiskLevels \cup {"absent"}

\* _call_llm: the risk level of its result
CallLlm(answer) ==
    IF LlmFailed(answer) THEN "WARNING"
    ELSE IF answer.risk_level = "absent" THEN "SAFE"
    ELSE answer.risk_level

\* IntentAnalyzer.analyze: a rule-based CRITICAL is returned at once; else
\* the model is called and the results are merged; the merge raises on
\* entries of other types (max of the confidences, the set of anomalies,
\* the fields of IntentAnalysisResult)
Analyze(req, res, answer) ==
    LET rule == RuleBasedLevels(req, res)[5]
    IN  IF rule = "CRITICAL"
        THEN [raised |-> FALSE, consulted |-> FALSE, rule |-> rule,
              risk_level |-> "CRITICAL"]
        ELSE IF ~LlmFailed(answer) /\ ~answer.typed
        THEN [raised |-> TRUE, consulted |-> TRUE, rule |-> rule]
        ELSE [raised |-> FALSE, consulted |-> TRUE, rule |-> rule,
              llm |-> CallLlm(answer),
              risk_level |-> FinalRisk(rule, CallLlm(answer))]

\* analyzer.analyze(request, result) of an IntentAnalyzer
AnalyzerAnalyzeLlm ==
    /\ fx.phase = "on"
    /\ fx.last.action = "none"
    /\ \E req \in AnalyzerRequests, res \in AnalyzerResults,
          answer \in LlmAnswers :
         fx' = [fx EXCEPT !.phase = "merged",
                  !.last = [action |-> "analyze", request |-> req,
                            result |-> res, answer |-> answer,
                            out |-> Analyze(req, res, answer)]]
    /\ UNCHANGED <<norm, att, tee, anvil, pipe, log, http, pool, exec>>

NextLlm == AnalyzerAnalyzeLlm

SpecLlm == InitForensics /\ [][NextLlm]_vars

\* C38: the language model can only raise the risk: the level analyze
\* returns is the maximum of the rule-based level and the model's level, a
\* failed model call counts as WARNING, and a rule-based CRITICAL is
\* returned as CRITICAL without a call of the model.
C38_LlmOnlyRaises ==
    (fx.phase = "merged" /\ ~fx.last.out.raised) =>
       LET out == fx.last.out
           answer == fx.last.answer
           llm == IF answer.kind = "error" THEN "WARNING"
                  ELSE IF answer.risk_level \in RiskLevels
                  THEN answer.risk_level
                  ELSE IF answer.risk_level = "absent" THEN "SAFE"
                  ELSE "WARNING"
       IN  /\ out.rule = "CRITICAL"
                => out.risk_level = "CRITICAL" /\ ~out.consulted
           /\ out.rule # "CRITICAL"
                => /\ out.consulted
                   /\ LevelRank(out.risk_level) >= LevelRank(out.rule)
                   /\ LevelRank(out.risk_level) >= LevelRank(llm)
                   /\ out.risk_level \in {out.rule, llm}

\* the rules say WARNING, the model says SAFE, and analyze returns WARNING
C38_Witness ==
    /\ fx.phase = "merged"
    /\ ~fx.last.out.raised
    /\ fx.last.out.consulted
    /\ fx.last.out.rule = "WARNING"
    /\ fx.last.answer.kind = "json"
    /\ fx.last.answer.risk_level = "SAFE"
    /\ fx.last.out.risk_level = "WARNING"

\* the last pass of the Executor walked the Planner's plan and both
\* setup_environment and simulate_tx succeeded
CanonicalPlanSimulated ==
    /\ pipe.pc \notin {"off", "idle"}
    /\ pipe.last_pass.mode = "plan"
    /\ {"setup_environment", "simulate_tx", "trace_analysis",
        "attack_detection"} \subseteq DOMAIN pipe.last_pass.results
    /\ pipe.last_pass.results["setup_environment"].success
    /\ pipe.last_pass.results["simulate_tx"].success

\* C39: in the plan path, when setup_environment and simulate_tx succeed,
\* trace_analysis and attack_detection are called with the call traces and
\* asset changes of simulate_tx and succeed.
C39_DependentTasksSucceed ==
    CanonicalPlanSimulated =>
       /\ pipe.last_pass.results["trace_analysis"].success
       /\ pipe.last_pass.results["attack_detection"].success

(***************************************************************************)
(* SpecConcurrent: audits that run concurrently on one pipeline object     *)
(*                                                                         *)
(* Every call of run is a coroutine of its own on the one event loop; the  *)
(* pipeline, its ReflectionAgent and its toolkits are shared.  A coroutine *)
(* gives the loop to the others only where it really suspends: at          *)
(* asyncio.gather in _execute_parallel, once for each group of a plan.     *)
(* The tools themselves never suspend (the RPC calls are synchronous), so  *)
(* an audit without a plan runs from its first line to the end of _cleanup *)
(* in one step.  pipe.audits[i] is the position of the i-th coroutine:     *)
(*   "new"      run has not been called yet                                *)
(*   "gather"   suspended at the gather of group g of its plan, in pass    *)
(*              1 or 2 of the Executor; results are those of the groups    *)
(*              before                                                     *)
(*   "done"     run has returned, _cleanup included                        *)
(***************************************************************************)
\* the number of concurrent calls of run
NumAudits == 2

\* the audits asked for: a plain transfer (simple mode) and a transaction
\* with more than 1000 characters of calldata (Planner)
ConcInputs ==
    { [user_intent |-> "swap", tx_data |-> Tx(Str(OneAddress), 2)],
      [user_intent |-> "swap", tx_data |-> Tx(Str(OneAddress), 1002)] }

\* what the environment does during the calls of one step
ConcOracles ==
    { o \in RunOracles :
        /\ o.traces = <<>> /\ o.changes = <<>>
        /\ o.fail \in {"none", "send"}
        /\ o.start \in {"ok", "spawn_fails"}
        /\ o.status = 1 }

AuditNew == [pc |-> "new"]
AuditDone(stage) == [pc |-> "done", stage |-> stage]

\* the part of run an audit without a plan goes through in one piece:
\* Executor in simple mode, Reflection and, when Reflection asks for it,
\* both once more; the toolkit and the retry counter afterwards
SimpleRun(a, ctx, retry_count, max_retries, o1, o2) ==
    LET x1 == ExecuteSimpleMode(a, ctx, o1)
        c1 == [ctx EXCEPT !.simulation_result = x1.simulation_result]
        r1 == ReflectionExecute(c1, retry_count, max_retries)
    IN  IF ~x1.success /\ DOMAIN x1.results = {}
        THEN [a |-> x1.a, retry_count |-> retry_count, stage |-> "executor"]
        ELSE IF r1.next_step # "executor"
        THEN [a |-> x1.a, retry_count |-> r1.retry_count, stage |-> "verdict"]
        ELSE LET x2 == ExecuteSimpleMode(x1.a, c1, o2)
                 c2 == [c1 EXCEPT !.simulation_result = x2.simulation_result]
                 r2 == ReflectionExecute(c2, r1.retry_count, max_retries)
             IN  [a |-> x2.a, retry_count |-> r2.retry_count,
                  stage |-> "verdict"]

\* run up to its first suspension: the context, Perception, Planner for a
\* complex transaction, and the Executor up to the gather of the first
\* group; without a plan everything up to the return of run
RunToSuspension(i, input, o1, o2) ==
    LET ctx0 == [user_intent |-> input.user_intent,
                 tx_data |-> input.tx_data,
                 metadata |-> NoMetadata,
                 simulation_result |-> NoResult,
                 step_history |-> <<>>,
                 perception_next_step |-> "none"]
        p == PerceptionExecute(ctx0)
        ctx1 == [ctx0 EXCEPT !.metadata = p.metadata]
        q == PlannerExecute(ctx1)
        x == SimpleRun(anvil, ctx1, pipe.retry_count, pipe.max_retries, o1, o2)
    IN  IF pipe.result_validated \/ ~p.success
        THEN [audit |-> AuditDone(IF pipe.result_validated THEN "pipeline"
                                  ELSE "perception"),
              a |-> anvil, retry_count |-> pipe.retry_count]
        ELSE IF p.next_step # "planner"
        THEN [audit |-> AuditDone(x.stage), a |-> x.a,
              retry_count |-> x.retry_count]
        ELSE IF ~q.success
        THEN [audit |-> AuditDone("planner"), a |-> anvil,
              retry_count |-> pipe.retry_count]
        ELSE [audit |-> [pc |-> "gather", g |-> 1, pass |-> 1,
                         results |-> <<>>,
                         ctx |-> [ctx1 EXCEPT !.metadata = q.metadata]],
              a |-> anvil, retry_count |-> pipe.retry_count]

\* run is called for the i-th audit and goes on until it suspends or
\* returns; the finally clause of a run that returns is _cleanup
AuditBegin(i) ==
    /\ pipe.pc = "concurrent"
    /\ pipe.audits[i].pc = "new"
    /\ \E input \in ConcInputs : \E o1 \in ConcOracles : \E o2 \in ConcOracles :
       \E r \in {RunToSuspension(i, input, o1, o2)} :
         /\ pipe' = [pipe EXCEPT !.audits[i] = r.audit,
                                 !.retry_count = r.retry_count]
         /\ IF r.audit.pc = "done"
            THEN /\ anvil' = AnvilCleanup(r.a)
                 /\ \E outcome \in SubprocessOutcomes :
                      tee' = TeeCleanup(tee, outcome)
            ELSE /\ anvil' = r.a
                 /\ tee' = tee
    /\ UNCHANGED <<fx, exec, http, pool, norm, att, log>>

\* the subtasks of group g of a plan
GroupTasks(plan, g) ==
    [k \in 1..Len(plan.parallel_groups[g]) |->
        TaskById(plan.tasks, plan.parallel_groups[g][k])]

\* the loop runs the coroutines of the group the i-th audit waits for and
\* wakes the audit: _execute_plan goes on to the gather of the next group;
\* after the last group the Executor returns, Reflection decides, and the
\* audit either enters the Executor once more or goes through the
\* Aggregator to the return of run and its _cleanup
GatherResume(i) ==
    /\ pipe.pc = "concurrent"
    /\ pipe.audits[i].pc = "gather"
    /\ \E o \in ConcOracles :
       \E me \in {pipe.audits[i]} :
       \E run \in {RunTasks(anvil, me.ctx.user_intent,
                            GroupTasks(me.ctx.metadata.plan, me.g), o, FALSE,
                            me.results)} :
         IF me.g < Len(me.ctx.metadata.plan.parallel_groups)
         THEN /\ pipe' = [pipe EXCEPT !.audits[i].g = @ + 1,
                                      !.audits[i].results = run.results]
              /\ anvil' = run.a
              /\ tee' = tee
         ELSE \E c1 \in {[me.ctx EXCEPT !.simulation_result =
                             PlanOutcome(me.ctx, run).simulation_result]} :
              \E r \in {ReflectionExecute(c1, pipe.retry_count,
                                          pipe.max_retries)} :
                IF me.pass = 1 /\ r.next_step = "executor"
                THEN /\ pipe' = [pipe EXCEPT
                                   !.retry_count = r.retry_count,
                                   !.audits[i] = [me EXCEPT !.pass = 2, !.g = 1,
                                                    !.results = <<>>,
                                                    !.ctx = c1]]
                     /\ anvil' = run.a
                     /\ tee' = tee
                ELSE /\ pipe' = [pipe EXCEPT
                                   !.retry_count = r.retry_count,
                                   !.audits[i] = AuditDone("verdict")]
                     /\ anvil' = AnvilCleanup(run.a)
                     /\ \E outcome \in SubprocessOutcomes :
                          tee' = TeeCleanup(tee, outcome)
    /\ UNCHANGED <<fx, exec, http, pool, norm, att, log>>

AuditStep == \E i \in 1..NumAudits : AuditBegin(i)
AuditResume == \E i \in 1..NumAudits : GatherResume(i)

InitConcurrent ==
    /\ pipe \in { [pc |-> "concurrent", result_validated |-> v,
                   max_retries |-> m, retry_count |-> 0,
                   audits |-> [i \in 1..NumAudits |-> AuditNew]] :
                    v \in BOOLEAN, m \in 0..MaxRetries }
    /\ tee = TeeNew("docker-sim")
    /\ anvil = AnvilNew
    /\ norm = NormIdle
    /\ att = AttIdle
    /\ log = LogInit
    /\ exec = ExecOff /\ fx = FxOff /\ http = HttpOff
    /\ pool = PoolOff

NextConcurrent ==
    \/ AuditStep
    \/ AuditResume

SpecConcurrent == InitConcurrent /\ [][NextConcurrent]_vars

\* the i-th audit is between two steps of its Executor, and the
\* setup_environment step of this pass has started the simulator
BetweenSteps(i) ==
    /\ pipe.audits[i].pc = "gather"
    /\ "setup_environment" \in DOMAIN pipe.audits[i].results
    /\ pipe.audits[i].results["setup_environment"].success

C40_OnlyCleanupStops ==
    [][(IsRunning(anvil.s) /\ ~IsRunning(anvil'.s))
         => \E i \in 1..NumAudits :
               pipe.audits[i].pc # "done" /\ pipe'.audits[i].pc = "done"]_vars

\* an audit alone on the pipeline finds its simulator running between its
\* steps
C40_AloneKeepsRunning ==
    \A i \in 1..NumAudits :
        (BetweenSteps(i)
           /\ \A j \in (1..NumAudits) \ {i} : pipe.audits[j].pc = "new")
        => IsRunning(anvil.s)

====
